---------------------------- MODULE Spec2Model ----------------------------
(***************************************************************************)
(* Crawl-and-score engine of wealth-crawler.py (v2.2): the module-level    *)
(* crawl loop, fetch_page_robust, extract_internal_links, prioritize_links *)
(* and analyze_content_advanced with its helpers.                          *)
(*                                                                         *)
(* Representation.  A Python str is a sequence of one-character strings;   *)
(* positions are 0-based as in Python.  A confidence is kept in tenths     *)
(* (52.8 is 528) and a weight in tenths (1.5 is 15).  An HTML document is  *)
(* represented by what BeautifulSoup yields for it: the visible text of    *)
(* get_text() and the href values of its anchors, already resolved by      *)
(* urljoin.  A URL string is represented by its urlparse components.       *)
(***************************************************************************)
EXTENDS Integers, Sequences, FiniteSets, TLC

---------------------------------------------------------------------------
(* Python str primitives                                                   *)

Min(a, b) == IF a <= b THEN a ELSE b

Max(a, b) == IF a >= b THEN a ELSE b

\* s[a:b]
Slice(s, a, b) == SubSeq(s, Max(a, 0) + 1, Min(b, Len(s)))

LowerChar(c) ==
    CASE c = "A" -> "a" [] c = "B" -> "b" [] c = "C" -> "c" [] c = "D" -> "d"
      [] c = "E" -> "e" [] c = "F" -> "f" [] c = "G" -> "g" [] c = "H" -> "h"
      [] c = "I" -> "i" [] c = "J" -> "j" [] c = "K" -> "k" [] c = "L" -> "l"
      [] c = "M" -> "m" [] c = "N" -> "n" [] c = "O" -> "o" [] c = "P" -> "p"
      [] c = "Q" -> "q" [] c = "R" -> "r" [] c = "S" -> "s" [] c = "T" -> "t"
      [] c = "U" -> "u" [] c = "V" -> "v" [] c = "W" -> "w" [] c = "X" -> "x"
      [] c = "Y" -> "y" [] c = "Z" -> "z" [] OTHER -> c

\* str.lower()
lower(s) == [i \in 1..Len(s) |-> LowerChar(s[i])]

\* s.startswith(sub, i)
StartsAt(s, sub, i) ==
    /\ i >= 0
    /\ i + Len(sub) <= Len(s)
    /\ \A j \in 1..Len(sub) : s[i + j] = sub[j]

\* str.find(sub, start): the lowest index >= start, or -1
find(s, sub, start) ==
    LET hits == {i \in start..Len(s) : StartsAt(s, sub, i)}
    IN  IF hits = {} THEN -1 ELSE CHOOSE i \in hits : \A j \in hits : i <= j

\* str.rfind(sub, 0, end): the highest index whose occurrence lies in s[0:end]
rfind(s, sub, end) ==
    LET hits == {i \in 0..end : StartsAt(s, sub, i) /\ i + Len(sub) <= end}
    IN  IF hits = {} THEN -1 ELSE CHOOSE i \in hits : \A j \in hits : i >= j

RECURSIVE CountFrom(_, _, _)
CountFrom(s, sub, start) ==
    LET idx == find(s, sub, start)
    IN  IF idx = -1 THEN 0 ELSE 1 + CountFrom(s, sub, idx + Len(sub))

\* count, were every position of an occurrence counted
count_Overlapping(s, sub) ==
    Cardinality({i \in 0..Len(s) : StartsAt(s, sub, i)})

\* str.count(sub): the number of non-overlapping occurrences, scanning from
\* the left; the empty string is counted len(s) + 1 times
count(s, sub) == IF sub = <<>> THEN Len(s) + 1 ELSE CountFrom(s, sub, 0)

\* str.isspace() of one character
IsSpace(c) == c \in {" ", "\t", "\n", "\r"}

\* str.isprintable() of one character; "ZWSP" stands for U+200B, a character
\* that is neither printable nor whitespace
IsPrintable(c) == c \notin {"\t", "\n", "\r", "ZWSP"}

RECURSIVE lstrip(_)
lstrip(s) == IF s # <<>> /\ IsSpace(Head(s)) THEN lstrip(Tail(s)) ELSE s

RECURSIVE rstrip(_)
rstrip(s) ==
    IF s # <<>> /\ IsSpace(s[Len(s)]) THEN rstrip(SubSeq(s, 1, Len(s) - 1)) ELSE s

\* str.strip()
strip(s) == rstrip(lstrip(s))

RECURSIVE CollapseSpace(_)
\* re.sub(r'\s+', ' ', text)
CollapseSpace(s) ==
    IF s = <<>> THEN <<>>
    ELSE IF IsSpace(Head(s)) THEN <<" ">> \o CollapseSpace(lstrip(s))
    ELSE <<Head(s)>> \o CollapseSpace(Tail(s))

\* ''.join(char for char in text if char.isprintable() or char.isspace())
KeepPrintable(s) == SelectSeq(s, LAMBDA c : IsPrintable(c) \/ IsSpace(c))

clean_text(text) == strip(KeepPrintable(CollapseSpace(text)))


---------------------------------------------------------------------------
(* The fragment of Python's re that aum_patterns uses.  A pattern is a     *)
(* sequence of nodes; Match yields every way the pattern matches at a      *)
(* position, in the order the backtracking matcher tries them, so the      *)
(* first one is the match re reports.                                      *)

Lit(s) == [k |-> "lit", s |-> s]

Plus(cls) == [k |-> "plus", cls |-> cls]

Star(cls) == [k |-> "star", cls |-> cls]

Opt(r) == [k |-> "opt", r |-> r]

Alt(alts) == [k |-> "alt", alts |-> alts]

Cap(r) == [k |-> "cap", r |-> r]

IsDigit(c) == c \in {"0", "1", "2", "3", "4", "5", "6", "7", "8", "9"}

\* \d and \s
InClass(cls, c) == IF cls = "d" THEN IsDigit(c) ELSE IsSpace(c)

RECURSIVE RunLen(_, _, _)
RunLen(cls, t, i) ==
    IF i < Len(t) /\ InClass(cls, t[i + 1]) THEN 1 + RunLen(cls, t, i + 1) ELSE 0

RECURSIVE Flatten(_)
Flatten(ss) == IF ss = <<>> THEN <<>> ELSE Head(ss) \o Flatten(Tail(ss))

RECURSIVE Match(_, _, _), MatchNode(_, _, _)
Match(re, t, i) ==
    IF re = <<>> THEN <<[end |-> i, g |-> <<>>]>>
    ELSE LET first == MatchNode(re[1], t, i)
         IN  Flatten([a \in 1..Len(first) |->
                 LET rest == Match(Tail(re), t, first[a].end)
                 IN  [b \in 1..Len(rest) |->
                         [end |-> rest[b].end, g |-> first[a].g \o rest[b].g]]])

MatchNode(node, t, i) ==
    CASE node.k = "lit" ->
           IF StartsAt(t, node.s, i)
           THEN <<[end |-> i + Len(node.s), g |-> <<>>]>> ELSE <<>>
      [] node.k = "plus" ->
           LET n == RunLen(node.cls, t, i)
           IN  [j \in 1..n |-> [end |-> i + (n + 1 - j), g |-> <<>>]]
      [] node.k = "star" ->
           LET n == RunLen(node.cls, t, i)
           IN  [j \in 1..(n + 1) |-> [end |-> i + (n + 1 - j), g |-> <<>>]]
      [] node.k = "opt" ->
           Match(node.r, t, i) \o <<[end |-> i, g |-> <<>>]>>
      [] node.k = "alt" ->
           Flatten([a \in 1..Len(node.alts) |-> Match(node.alts[a], t, i)])
      [] node.k = "cap" ->
           LET inner == Match(node.r, t, i)
           IN  [a \in 1..Len(inner) |->
                   [end |-> inner[a].end,
                    g |-> <<[s |-> i, e |-> inner[a].end]>> \o inner[a].g]]

RECURSIVE finditer(_, _, _)
\* re.finditer(pattern, t): the non-overlapping matches from position pos on
finditer(re, t, pos) ==
    LET starts == {s \in pos..Len(t) : Match(re, t, s) # <<>>}
    IN  IF starts = {} THEN <<>>
        ELSE LET s == CHOOSE x \in starts : \A y \in starts : x <= y
                 m == Match(re, t, s)[1]
             IN  <<[s |-> s, e |-> m.end, g |-> m.g]>>
                   \o finditer(re, t, IF m.end > s THEN m.end ELSE s + 1)

---------------------------------------------------------------------------
(* extract_aum_value                                                       *)

\* (\d+(?:\.\d+)?)
NumberGroup == Cap(<<Plus("d"), Opt(<<Lit(<<".">>), Plus("d")>>)>>)

\* (billion|trillion|million)
UnitWord ==
    Cap(<<Alt(<<<<Lit(<<"b","i","l","l","i","o","n">>)>>,
                <<Lit(<<"t","r","i","l","l","i","o","n">>)>>,
                <<Lit(<<"m","i","l","l","i","o","n">>)>>>>)>>)

\* ([BMT]), matched against lower-cased text under re.IGNORECASE
UnitLetter == Cap(<<Alt(<<<<Lit(<<"b">>)>>, <<Lit(<<"m">>)>>, <<Lit(<<"t">>)>>>>)>>)

\* \s*(?:in)?\s*(?:assets|AUM)
InAssets ==
    <<Star("s"), Opt(<<Lit(<<"i", "n">>)>>), Star("s"),
      Alt(<<<<Lit(<<"a","s","s","e","t","s">>)>>, <<Lit(<<"a", "u", "m">>)>>>>)>>

aum_patterns ==
    << <<Lit(<<"$">>), Star("s"), NumberGroup, Star("s"), UnitWord>> \o InAssets,
       <<NumberGroup, Star("s"), UnitWord>> \o InAssets,
       <<Lit(<<"$">>), NumberGroup, Star("s"), UnitLetter, Opt(InAssets)>>,
       <<Alt(<<<<Lit(<<"m","a","n","a","g","i","n","g">>)>>,
               <<Lit(<<"o","v","e","r","s","e","e">>)>>,
               <<Lit(<<"a","d","v","i","s","e">>)>>>>),
         Star("s"), Opt(<<Lit(<<"$">>)>>), Star("s"), NumberGroup, Star("s"),
         UnitWord>>,
       <<Lit(<<"a", "u", "m">>), Star("s"), Lit(<<"o", "f">>), Star("s"),
         Opt(<<Lit(<<"$">>)>>), Star("s"), NumberGroup, Star("s"), UnitWord>> >>

DigitVal(c) ==
    CASE c = "0" -> 0 [] c = "1" -> 1 [] c = "2" -> 2 [] c = "3" -> 3
      [] c = "4" -> 4 [] c = "5" -> 5 [] c = "6" -> 6 [] c = "7" -> 7
      [] c = "8" -> 8 [] c = "9" -> 9

RECURSIVE DigitsVal(_)
DigitsVal(ds) ==
    IF ds = <<>> THEN 0
    ELSE 10 * DigitsVal(SubSeq(ds, 1, Len(ds) - 1)) + DigitVal(ds[Len(ds)])

RECURSIVE Pow10(_)
Pow10(n) == IF n = 0 THEN 1 ELSE 10 * Pow10(n - 1)

RECURSIVE Reduce(_)
\* a decimal num / 10^scale without trailing zeros, so that equal numbers
\* are equal records
Reduce(x) ==
    IF x.scale > 0 /\ x.num % 10 = 0
    THEN Reduce([num |-> x.num \div 10, scale |-> x.scale - 1]) ELSE x

\* float(s) for s matching \d+(?:\.\d+)?, as the decimal num / 10^scale
float(s) ==
    LET dot == find(s, <<".">>, 0)
    IN  IF dot = -1 THEN [num |-> DigitsVal(s), scale |-> 0]
        ELSE Reduce([num |-> DigitsVal(Slice(s, 0, dot) \o Slice(s, dot + 1, Len(s))),
                     scale |-> Len(s) - dot - 1])

\* the nearest integer to num / den, ties to the even one
RoundHalfEven(num, den) ==
    LET q == num \div den
        r == num % den
    IN  IF 2 * r < den THEN q
        ELSE IF 2 * r > den THEN q + 1
        ELSE IF q % 2 = 0 THEN q ELSE q + 1

\* round(amount * 10^shift, 2), in hundredths
RoundBillions(amount, shift) ==
    IF shift + 2 - amount.scale >= 0
    THEN amount.num * Pow10(shift + 2 - amount.scale)
    ELSE RoundHalfEven(amount.num, Pow10(amount.scale - shift - 2))

\* the body of the loop over the matches of one pattern
AumOfMatch(text_lower, m) ==
    LET amount == float(Slice(text_lower, m.g[1].s, m.g[1].e))
        unit == lower(Slice(text_lower, m.g[2].s, m.g[2].e))
        fact(shift) == <<[raw |-> Slice(text_lower, m.s, m.e),
                          amount |-> amount,
                          unit |-> unit,
                          billions |-> RoundBillions(amount, shift)]>>
    IN  IF unit \in {<<"b">>, <<"b","i","l","l","i","o","n">>} THEN fact(0)
        ELSE IF unit \in {<<"m">>, <<"m","i","l","l","i","o","n">>} THEN fact(-3)
        ELSE IF unit \in {<<"t">>, <<"t","r","i","l","l","i","o","n">>} THEN fact(3)
        ELSE <<>>

extract_aum_value(text) ==
    LET text_lower == lower(text)
    IN  Flatten([p \in 1..Len(aum_patterns) |->
            LET matches == finditer(aum_patterns[p], text_lower, 0)
            IN  Flatten([a \in 1..Len(matches) |-> AumOfMatch(text_lower, matches[a])])])

---------------------------------------------------------------------------
(* Scoring one page against one topic                                      *)

\* the sentence around the first occurrence of keyword
extract_context_snippet(text, keyword, context_length) ==
    LET text_lower == lower(text)
        keyword_lower == lower(keyword)
        idx == find(text_lower, keyword_lower, 0)
        start == Max(0, rfind(text_lower, <<".">>, idx) + 1)
        dot == find(text_lower, <<".">>, idx + Len(keyword))
        end == IF dot = -1 THEN Min(Len(text), idx + context_length)
               ELSE Min(dot + 1, Len(text))
    IN  IF idx = -1 THEN <<>> ELSE strip(Slice(text, start, end))

\* x in xs, for a Python list
InList(x, xs) == \E i \in 1..Len(xs) : xs[i] = x

\* sub in s, for Python strings
Contains(s, sub) == find(s, sub, 0) # -1

RECURSIVE ScanKeywords(_, _, _, _)
\* the loop "for keyword in keywords" from the i-th keyword on; acc holds
\* matches and snippets as built so far
ScanKeywords(text, keywords, i, acc) ==
    IF i > Len(keywords) THEN acc
    ELSE LET keyword == keywords[i]
             n == count(lower(text), lower(keyword))
             snippet == extract_context_snippet(text, keyword, 150)
         IN  IF n > 0
             THEN ScanKeywords(text, keywords, i + 1,
                    [matches |-> Append(acc.matches, [keyword |-> keyword, count |-> n]),
                     snippets |-> IF snippet # <<>> /\ ~InList(snippet, acc.snippets)
                                  THEN Append(acc.snippets, snippet)
                                  ELSE acc.snippets])
             ELSE ScanKeywords(text, keywords, i + 1, acc)

RECURSIVE SumCounts(_)
\* sum(m["count"] for m in matches)
SumCounts(matches) ==
    IF matches = <<>> THEN 0 ELSE Head(matches).count + SumCounts(Tail(matches))

\* WeightedConfidence without the min(100, ...)
WeightedConfidence_Unclamped(matches, keywords, weight) ==
    IF Len(keywords) > 0
    THEN LET total_mentions == SumCounts(matches)
             mention_boost == Min(20, total_mentions * 2)
         IN  RoundHalfEven((100 * Len(matches) + mention_boost * Len(keywords)) * weight,
                           Len(keywords))
    ELSE 0

\* WeightedConfidence, were the weight of the topic left out
WeightedConfidence_Unweighted(matches, keywords, weight) ==
    IF Len(keywords) > 0
    THEN LET total_mentions == SumCounts(matches)
             mention_boost == Min(20, total_mentions * 2)
         IN  Min(1000, RoundHalfEven((100 * Len(matches) + mention_boost * Len(keywords)) * 10,
                                     Len(keywords)))
    ELSE 0

\* min(100, round(weighted_confidence, 1)), in tenths; weight is in tenths
WeightedConfidence(matches, keywords, weight) ==
    IF Len(keywords) > 0
    THEN LET total_mentions == SumCounts(matches)
             mention_boost == Min(20, total_mentions * 2)
         IN  Min(1000, RoundHalfEven((100 * Len(matches) + mention_boost * Len(keywords)) * weight,
                                     Len(keywords)))
    ELSE 0

\* not html: None and the empty string are falsy
Truthy(html) == html.kind = "doc"

\* analyze_content_advanced, were every snippet returned rather than three
analyze_content_advanced_AllSnippets(html, question, config) ==
    IF ~Truthy(html)
    THEN [matches |-> <<>>, confidence |-> 0, snippets |-> <<>>,
          evidence_count |-> 0, aum_values |-> <<>>]
    ELSE LET text == clean_text(html.text)
             scan == ScanKeywords(text, config.keywords, 1,
                                  [matches |-> <<>>, snippets |-> <<>>])
         IN  [matches |-> scan.matches,
              confidence |-> WeightedConfidence(scan.matches, config.keywords, config.weight),
              snippets |-> scan.snippets,
              evidence_count |-> SumCounts(scan.matches),
              aum_values |-> <<>>]

analyze_content_advanced(html, question, config) ==
    IF ~Truthy(html)
    THEN [matches |-> <<>>, confidence |-> 0, snippets |-> <<>>,
          evidence_count |-> 0, aum_values |-> <<>>]
    ELSE LET text == clean_text(html.text)
             scan == ScanKeywords(text, config.keywords, 1,
                                  [matches |-> <<>>, snippets |-> <<>>])
             aum_values ==
                 IF Contains(question, <<"A", "U", "M">>)
                      \/ Contains(question, <<"A","s","s","e","t","s"," ","U","n","d","e","r"," ","M","a","n","a","g","e","m","e","n","t">>)
                 THEN extract_aum_value(text) ELSE <<>>
         IN  [matches |-> scan.matches,
              confidence |-> WeightedConfidence(scan.matches, config.keywords, config.weight),
              snippets |-> Slice(scan.snippets, 0, 3),
              evidence_count |-> SumCounts(scan.matches),
              aum_values |-> aum_values]

\* determine_status_advanced with its two tests in the other order
determine_status_advanced_Swapped(confidence) ==
    IF confidence >= 350 THEN "partial"
    ELSE IF confidence >= 750 THEN "found"
    ELSE "not found"

determine_status_advanced(confidence) ==
    IF confidence >= 750 THEN "found"
    ELSE IF confidence >= 350 THEN "partial"
    ELSE "not found"

\* Two entries of the catalog, in catalog order: "Assets Under Management
\* (AUM)" (weight 1.5) and "MSCI Linked ETFs" (weight 1.2)
INTELLIGENCE_CATEGORIES ==
    << [question |-> <<"A","s","s","e","t","s"," ","U","n","d","e","r"," ","M","a","n","a","g","e","m","e","n","t"," ","(","A","U","M",")">>,
        keywords |-> <<<<"A","U","M">>,
                     <<"a","s","s","e","t","s"," ","u","n","d","e","r"," ","m","a","n","a","g","e","m","e","n","t">>,
                     <<"t","o","t","a","l"," ","a","s","s","e","t","s"," ","u","n","d","e","r"," ","m","a","n","a","g","e","m","e","n","t">>,
                     <<"b","i","l","l","i","o","n"," ","i","n"," ","a","s","s","e","t","s">>,
                     <<"m","i","l","l","i","o","n"," ","i","n"," ","a","s","s","e","t","s">>,
                     <<"t","r","i","l","l","i","o","n"," ","i","n"," ","a","s","s","e","t","s">>,
                     <<"$","B"," ","i","n"," ","a","s","s","e","t","s">>,
                     <<"$","M"," ","i","n"," ","a","s","s","e","t","s">>,
                     <<"$","B"," ","A","U","M">>,
                     <<"$","M"," ","A","U","M">>,
                     <<"m","a","n","a","g","i","n","g"," ","$">>,
                     <<"o","v","e","r","s","e","e"," ","$">>,
                     <<"a","d","v","i","s","e"," ","o","n"," ","$">>,
                     <<"r","e","s","p","o","n","s","i","b","l","e"," ","f","o","r"," ","$">>,
                     <<"c","l","i","e","n","t"," ","a","s","s","e","t","s">>,
                     <<"t","o","t","a","l"," ","c","l","i","e","n","t"," ","a","s","s","e","t","s">>,
                     <<"c","o","m","b","i","n","e","d"," ","a","s","s","e","t","s">>,
                     <<"a","s","s","e","t","s"," ","t","o","t","a","l","i","n","g">>,
                     <<"a","s","s","e","t","s"," ","e","x","c","e","e","d","i","n","g">>,
                     <<"r","e","g","u","l","a","t","o","r","y"," ","a","s","s","e","t","s">>,
                     <<"d","i","s","c","r","e","t","i","o","n","a","r","y"," ","a","s","s","e","t","s">>,
                     <<"a","d","v","i","s","o","r","y"," ","a","s","s","e","t","s">>>>,
        weight |-> 15],
       [question |-> <<"M","S","C","I"," ","L","i","n","k","e","d"," ","E","T","F","s">>,
        keywords |-> <<<<"M","S","C","I">>,
                     <<"E","T","F">>,
                     <<"e","x","c","h","a","n","g","e"," ","t","r","a","d","e","d"," ","f","u","n","d">>,
                     <<"i","n","d","e","x"," ","f","u","n","d">>,
                     <<"p","a","s","s","i","v","e"," ","i","n","v","e","s","t","m","e","n","t">>>>,
        weight |-> 12] >>

Topics == 1..Len(INTELLIGENCE_CATEGORIES)

---------------------------------------------------------------------------
(* URLs and links                                                          *)

\* the characters of the URL components the model uses
Chars(s) ==
    CASE s = "" -> <<>>
      [] s = "https" -> <<"h","t","t","p","s">>
      [] s = "firm.example" -> <<"f","i","r","m",".","e","x","a","m","p","l","e">>
      [] s = "other.example" -> <<"o","t","h","e","r",".","e","x","a","m","p","l","e">>
      [] s = "/about" -> <<"/","a","b","o","u","t">>
      [] s = "top" -> <<"t","o","p">>
      [] s = "/team" -> <<"/","t","e","a","m">>
      [] s = "/esg" -> <<"/","e","s","g">>
      [] s = "/strategy" -> <<"/","s","t","r","a","t","e","g","y">>
      [] s = "/services" -> <<"/","s","e","r","v","i","c","e","s">>
      [] s = "/products" -> <<"/","p","r","o","d","u","c","t","s">>
      [] s = "/solutions" -> <<"/","s","o","l","u","t","i","o","n","s">>
      [] s = "/platform" -> <<"/","p","l","a","t","f","o","r","m">>
      [] s = "/approach" -> <<"/","a","p","p","r","o","a","c","h">>
      [] s = "/news" -> <<"/","n","e","w","s">>
      [] s = "/contact" -> <<"/","c","o","n","t","a","c","t">>
      [] s = "/About" -> <<"/","A","b","o","u","t">>
      [] s = "/ESG-Report" -> <<"/","E","S","G","-","R","e","p","o","r","t">>

RECURSIVE Repeat(_, _)
Repeat(c, n) == IF n = 0 THEN <<>> ELSE <<c>> \o Repeat(c, n - 1)

\* A URL string as urlparse splits it; slashes is the number of '/' that end
\* the path and path is the path without them
Url(netloc, path, slashes, fragment) ==
    [scheme |-> "https", netloc |-> netloc, path |-> path, slashes |-> slashes,
     query |-> "", fragment |-> fragment]

\* the URL string itself
geturl(u) ==
    Chars(u.scheme) \o <<":", "/", "/">> \o Chars(u.netloc) \o Chars(u.path)
      \o Repeat("/", u.slashes)
      \o (IF u.query # "" THEN <<"?">> \o Chars(u.query) ELSE <<>>)
      \o (IF u.fragment # "" THEN <<"#">> \o Chars(u.fragment) ELSE <<>>)

\* f"{parsed.scheme}://{parsed.netloc}{parsed.path.rstrip('/')}" and the query
NormalizedLink(parsed) ==
    [scheme |-> parsed.scheme, netloc |-> parsed.netloc, path |-> parsed.path,
     slashes |-> 0, query |-> parsed.query, fragment |-> ""]

\* extract_internal_links, were the netloc of a link not tested
extract_internal_links_AnyHost(html, base_url) ==
    IF ~Truthy(html) THEN {}
    ELSE {NormalizedLink(html.anchors[i]) : i \in 1..Len(html.anchors)}

\* the set links built by extract_internal_links; html.anchors holds
\* urljoin(base_url, href) of every anchor, parsed
extract_internal_links(html, base_url) ==
    IF ~Truthy(html) THEN {}
    ELSE {NormalizedLink(html.anchors[i]) :
            i \in {j \in 1..Len(html.anchors) : html.anchors[j].netloc = base_url.netloc}}

\* list(links): a set is listed in an order the program does not control
ListsOf(S) ==
    {l \in [1..Cardinality(S) -> S] : \A i, j \in 1..Cardinality(S) : l[i] = l[j] => i = j}

priority_keywords ==
    <<<<"a","b","o","u","t">>,
      <<"c","a","p","a","b","i","l","i","t","i","e","s">>,
      <<"s","o","l","u","t","i","o","n","s">>,
      <<"s","e","r","v","i","c","e","s">>,
      <<"p","r","o","d","u","c","t","s">>,
      <<"i","n","v","e","s","t","m","e","n","t">>,
      <<"a","p","p","r","o","a","c","h">>,
      <<"s","t","r","a","t","e","g","y">>,
      <<"t","e","a","m">>,
      <<"e","s","g">>,
      <<"s","u","s","t","a","i","n","a","b","i","l","i","t","y">>,
      <<"t","e","c","h","n","o","l","o","g","y">>,
      <<"p","l","a","t","f","o","r","m">>>>

\* the test of prioritize_links, were the link not lowered first
HasPriorityKeyword_CaseSensitive(link) ==
    \E i \in 1..Len(priority_keywords) : Contains(geturl(link), priority_keywords[i])

\* any(keyword in link_lower for keyword in priority_keywords)
HasPriorityKeyword(link) ==
    \E i \in 1..Len(priority_keywords) : Contains(lower(geturl(link)), priority_keywords[i])


---------------------------------------------------------------------------
(* fetch_page_robust                                                       *)

None == [kind |-> "none", text |-> <<>>, anchors |-> <<>>]

\* response.text of a 2xx response with an empty body
EmptyBody == [kind |-> "empty", text |-> <<>>, anchors |-> <<>>]

Doc(text, anchors) == [kind |-> "doc", text |-> text, anchors |-> anchors]

\* What one requests.get of the loop meets: a 2xx response with its text,
\* an HTTPError of raise_for_status with the status code, a Timeout, or any
\* other exception
Ok(html) == [kind |-> "ok", status |-> 200, html |-> html]

HttpError(status) == [kind |-> "HTTPError", status |-> status, html |-> None]

TimeoutError == [kind |-> "Timeout", status |-> 0, html |-> None]

OtherError == [kind |-> "Exception", status |-> 0, html |-> None]

\* Pow2, were the backoff the same after every attempt
Pow2_Flat(n) == 1

RECURSIVE Pow2(_)
\* 2 ** attempt
Pow2(n) == IF n = 0 THEN 1 ELSE 2 * Pow2(n - 1)

\* what a call has done so far: the number of requests.get calls, the
\* seconds of its time.sleep calls, and both in the order they were made
NoneDone == [requests |-> 0, sleeps |-> <<>>, log |-> <<>>]

Get(acc) ==
    [acc EXCEPT !.requests = @ + 1, !.log = Append(@, [op |-> "get", seconds |-> 0])]

Sleep(acc, seconds) ==
    [acc EXCEPT !.sleeps = Append(@, seconds),
                !.log = Append(@, [op |-> "sleep", seconds |-> seconds])]

RECURSIVE FetchAttempt_Retries404(_, _, _, _)
\* FetchAttempt, were a 404 handled like the other HTTP errors
FetchAttempt_Retries404(attempt, retries, responses, acc) ==
    IF attempt >= retries THEN [html |-> None] @@ acc
    ELSE LET response == responses[attempt + 1]
             made == Get(acc)
         IN  CASE response.kind = "ok" -> [html |-> response.html] @@ made
               [] response.kind = "HTTPError" ->
                    IF response.status = 403 THEN [html |-> None] @@ made
                    ELSE IF attempt = retries - 1 THEN [html |-> None] @@ made
                    ELSE FetchAttempt_Retries404(attempt + 1, retries, responses, made)
               [] response.kind = "Timeout" ->
                    IF attempt = retries - 1 THEN [html |-> None] @@ made
                    ELSE FetchAttempt_Retries404(attempt + 1, retries, responses,
                                                 Sleep(made, Pow2(attempt)))
               [] OTHER ->
                    IF attempt = retries - 1 THEN [html |-> None] @@ made
                    ELSE FetchAttempt_Retries404(attempt + 1, retries, responses,
                                                 Sleep(made, 1))

RECURSIVE FetchAttempt(_, _, _, _)
\* the loop "for attempt in range(retries)" from attempt on; responses[i] is
\* what the i-th request meets; acc is what the call has done so far
FetchAttempt(attempt, retries, responses, acc) ==
    IF attempt >= retries THEN [html |-> None] @@ acc
    ELSE LET response == responses[attempt + 1]
             made == Get(acc)
         IN  CASE response.kind = "ok" -> [html |-> response.html] @@ made
               [] response.kind = "HTTPError" ->
                    IF response.status = 403 THEN [html |-> None] @@ made
                    ELSE IF response.status = 404 THEN [html |-> None] @@ made
                    ELSE IF attempt = retries - 1 THEN [html |-> None] @@ made
                    ELSE FetchAttempt(attempt + 1, retries, responses, made)
               [] response.kind = "Timeout" ->
                    IF attempt = retries - 1 THEN [html |-> None] @@ made
                    ELSE FetchAttempt(attempt + 1, retries, responses,
                                      Sleep(made, Pow2(attempt)))
               [] OTHER ->
                    IF attempt = retries - 1 THEN [html |-> None] @@ made
                    ELSE FetchAttempt(attempt + 1, retries, responses, Sleep(made, 1))

\* the result, with what the call did on the way
fetch_page_robust(url, retries, responses) ==
    FetchAttempt(0, retries, responses, NoneDone)

RECURSIVE FetchAttempt_v2(_, _, _, _)
\* the same loop in msci-intelligence-v2.py: its HTTPError handler tests
\* for 404 only
FetchAttempt_v2(attempt, retries, responses, acc) ==
    IF attempt >= retries THEN [html |-> None] @@ acc
    ELSE LET response == responses[attempt + 1]
             made == Get(acc)
         IN  CASE response.kind = "ok" -> [html |-> response.html] @@ made
               [] response.kind = "HTTPError" ->
                    IF response.status = 404 THEN [html |-> None] @@ made
                    ELSE IF attempt = retries - 1 THEN [html |-> None] @@ made
                    ELSE FetchAttempt_v2(attempt + 1, retries, responses, made)
               [] response.kind = "Timeout" ->
                    IF attempt = retries - 1 THEN [html |-> None] @@ made
                    ELSE FetchAttempt_v2(attempt + 1, retries, responses,
                                         Sleep(made, Pow2(attempt)))
               [] OTHER ->
                    IF attempt = retries - 1 THEN [html |-> None] @@ made
                    ELSE FetchAttempt_v2(attempt + 1, retries, responses, Sleep(made, 1))

\* fetch_page_robust of msci-intelligence-v2.py
fetch_page_robust_v2(url, retries, responses) ==
    FetchAttempt_v2(0, retries, responses, NoneDone)

\* retries=3, the default the crawl loop calls with
DefaultRetries == 3

---------------------------------------------------------------------------
(* The run: sidebar parameters, the site, and the crawl loop               *)

\* bounds of the model
MaxPages == 4

MaxDepth == 2

MaxAnchors == 2

\* for link in prioritized_links[:8]
LinkCap == 8

Root == Url("firm.example", "", 0, "")

RootSlash == Url("firm.example", "", 1, "")

About == Url("firm.example", "/about", 0, "")

AboutSlash == Url("firm.example", "/about", 1, "")

Other == Url("other.example", "/about", 0, "")

\* what the user may type as Target Firm URL
TargetUrls == {Root, RootSlash}

\* what an anchor of a page may resolve to
Hrefs == {Root, About, AboutSlash, Other}

AnchorLists == UNION {[1..n -> Hrefs] : n \in 0..MaxAnchors}

\* the visible texts a page of the site may have
PageTexts ==
    { \* "We manage $5 billion in assets"
      <<"W","e"," ","m","a","n","a","g","e"," ","$","5"," ","b","i","l","l","i","o","n"," ","i","n"," ","a","s","s","e","t","s">>,
      \* "MSCI ETF"
      <<"M","S","C","I"," ","E","T","F">>,
      \* "ETF. Index fund"
      <<"E","T","F","."," ","I","n","d","e","x"," ","f","u","n","d">>,
      \* "MSCI ETF exchange traded fund index fund passive investment"
      <<"M","S","C","I"," ","E","T","F"," ","e","x","c","h","a","n","g","e"," ","t","r","a","d","e","d"," ","f","u","n","d"," ","i","n","d","e","x"," ","f","u","n","d"," ","p","a","s","s","i","v","e"," ","i","n","v","e","s","t","m","e","n","t">>,
      \* "$5B"
      <<"$","5","B">> }

Htmls == {Doc(x, a) : x \in PageTexts, a \in AnchorLists}

\* every URL the loop can come to hold
AllUrls == TargetUrls \cup {NormalizedLink(h) : h \in {g \in Hrefs : g.netloc = "firm.example"}}

\* what the requests of one call of fetch_page_robust may meet: failures
\* that are retried, then a response that ends the call
Retried == {HttpError(500), TimeoutError, OtherError}

Final == {Ok(h) : h \in Htmls} \cup {Ok(EmptyBody), HttpError(404), HttpError(403)}

ResponseScripts(retries) ==
    {p \o <<f>> : p \in UNION {[1..n -> Retried] : n \in 0..(retries - 1)}, f \in Final}
      \cup [1..retries -> Retried]

\* the values "html = fetch_page_robust(current_url)" can take
FetchedHtml ==
    {fetch_page_robust(u, DefaultRetries, s).html :
       u \in AllUrls, s \in ResponseScripts(DefaultRetries)}

\* analyze_content_advanced(html, question, config) of the t-th topic; it
\* reads only the text of html and is evaluated once per page text
PageScores ==
    [x \in PageTexts |-> [t \in Topics |->
        analyze_content_advanced(Doc(x, <<>>), INTELLIGENCE_CATEGORIES[t].question,
                                 INTELLIGENCE_CATEGORIES[t])]]

Analyze(html, t) == PageScores[html.text][t]

\* the internal links of a page with many links: nine whose URL holds a
\* priority keyword, and two whose URL holds none
LinkPool ==
    << Url("firm.example", "/about", 0, ""), Url("firm.example", "/news", 0, ""),
       Url("firm.example", "/team", 0, ""), Url("firm.example", "/esg", 0, ""),
       Url("firm.example", "/strategy", 0, ""), Url("firm.example", "/services", 0, ""),
       Url("firm.example", "/contact", 0, ""), Url("firm.example", "/products", 0, ""),
       Url("firm.example", "/solutions", 0, ""), Url("firm.example", "/platform", 0, ""),
       Url("firm.example", "/approach", 0, "") >>

\* links as a caller may pass them to prioritize_links: with and without
\* a priority keyword, in lower case and in capitals
MixedCaseLinks ==
    { Url("firm.example", "/about", 0, ""), Url("firm.example", "/news", 0, ""),
      Url("firm.example", "/About", 0, ""), Url("firm.example", "/ESG-Report", 0, ""),
      Url("firm.example", "/contact", 0, "") }

\* HasPriorityKeyword, evaluated once per URL
PriorityLink ==
    [u \in AllUrls \cup {NormalizedLink(h) : h \in Hrefs}
              \cup {LinkPool[i] : i \in 1..Len(LinkPool)}
              \cup MixedCaseLinks |-> HasPriorityKeyword(u)]

\* prioritize_links, were the links returned in the order they came in
prioritize_links_Unsorted(links) == links

\* prioritized + normal
prioritize_links(links) ==
    SelectSeq(links, LAMBDA link : PriorityLink[link])
      \o SelectSeq(links, LAMBDA link : ~PriorityLink[link])


VARIABLES
    target_url,     \* sidebar: Target Firm URL
    max_pages,      \* sidebar: Maximum Pages
    max_depth,      \* sidebar: Crawl Depth
    intelligence,   \* topic -> the accumulator of the topic
    visited,        \* set of URLs
    to_visit,       \* list of (url, depth)
    pages_crawled,
    pc,             \* "loop" while the while loop runs, then "done"
    outcome,        \* how the last iteration ended
    fetched,        \* history: URL -> number of calls of fetch_page_robust
    processed,      \* history: the pages analysed, as (url, text), in order
    slept,          \* history: time.sleep(crawl_delay) ran since the last fetch returned
    response_ok,    \* history: the last fetch returned the text of a 2xx response
    offsite,        \* history: the links of the last page were extracted and an
                    \* anchor of it led to another host
    call            \* one call of a function on its own: arguments and result

vars == <<target_url, max_pages, max_depth, intelligence, visited, to_visit,
          pages_crawled, pc, outcome, fetched, processed, slept, response_ok,
          offsite, call>>

\* what the crawl loop never assigns
params == <<target_url, max_pages, max_depth, call>>

run_vars == <<target_url, max_pages, max_depth, intelligence, visited, to_visit,
              pages_crawled, pc, outcome, fetched, processed, slept, response_ok,
              offsite>>

NoCall == [fn |-> "none"]

InitialIntel ==
    [status |-> "not found", confidence |-> 0, matches |-> <<>>, snippets |-> <<>>,
     sources |-> <<>>, evidence_count |-> 0, aum_values |-> <<>>]

Init ==
    /\ target_url \in TargetUrls
    /\ max_pages \in 1..MaxPages
    /\ max_depth \in 1..MaxDepth
    /\ intelligence = [t \in Topics |-> InitialIntel]
    /\ visited = {}
    /\ to_visit = <<<<target_url, 0>>>>
    /\ pages_crawled = 0
    /\ pc = "loop"
    /\ outcome = "start"
    /\ fetched = [u \in AllUrls |-> 0]
    /\ processed = <<>>
    /\ slept = FALSE
    /\ response_ok = FALSE
    /\ offsite = FALSE
    /\ call = NoCall

\* LoopCondition with the budget test off by one
LoopCondition_OffByOne == to_visit # <<>> /\ pages_crawled <= max_pages

\* while to_visit and pages_crawled < max_pages
LoopCondition == to_visit # <<>> /\ pages_crawled < max_pages

\* if current_url in visited or depth > max_depth
SkipCondition(current_url, depth) == current_url \in visited \/ depth > max_depth

\* Merge, were the stored result that of the last page analysed
Merge_LastWins(current_intel, result, current_url) ==
    LET best == [current_intel EXCEPT
                   !.confidence = result.confidence,
                   !.matches = result.matches,
                   !.snippets = result.snippets,
                   !.evidence_count = result.evidence_count,
                   !.status = determine_status_advanced(result.confidence),
                   !.aum_values = result.aum_values]
    IN  IF result.matches # <<>> /\ ~InList(current_url, best.sources)
        THEN [best EXCEPT !.sources = Append(@, current_url)]
        ELSE best

\* Merge, were a page of equal confidence to replace the stored result
Merge_TieReplaces(current_intel, result, current_url) ==
    LET best ==
          IF result.confidence >= current_intel.confidence
          THEN [current_intel EXCEPT
                  !.confidence = result.confidence,
                  !.matches = result.matches,
                  !.snippets = result.snippets,
                  !.evidence_count = result.evidence_count,
                  !.status = determine_status_advanced(result.confidence),
                  !.aum_values = result.aum_values]
          ELSE current_intel
    IN  IF result.matches # <<>> /\ ~InList(current_url, best.sources)
        THEN [best EXCEPT !.sources = Append(@, current_url)]
        ELSE best

\* Merge, were the source recorded inside the test for a better page
Merge_SourceOfBestOnly(current_intel, result, current_url) ==
    IF result.confidence > current_intel.confidence
    THEN [current_intel EXCEPT
            !.confidence = result.confidence,
            !.matches = result.matches,
            !.snippets = result.snippets,
            !.evidence_count = result.evidence_count,
            !.status = determine_status_advanced(result.confidence),
            !.aum_values = result.aum_values,
            !.sources = IF result.matches # <<>> /\ ~InList(current_url, @)
                        THEN Append(@, current_url) ELSE @]
    ELSE current_intel

\* Merge, were a source recorded only while the topic has none
Merge_OneSource(current_intel, result, current_url) ==
    LET best ==
          IF result.confidence > current_intel.confidence
          THEN [current_intel EXCEPT
                  !.confidence = result.confidence,
                  !.matches = result.matches,
                  !.snippets = result.snippets,
                  !.evidence_count = result.evidence_count,
                  !.status = determine_status_advanced(result.confidence),
                  !.aum_values = result.aum_values]
          ELSE current_intel
    IN  IF result.matches # <<>> /\ best.sources = <<>>
        THEN [best EXCEPT !.sources = Append(@, current_url)]
        ELSE best

\* lines 715 to 724: the merge of one page's result into the accumulator of
\* a topic
Merge(current_intel, result, current_url) ==
    LET best ==
          IF result.confidence > current_intel.confidence
          THEN [current_intel EXCEPT
                  !.confidence = result.confidence,
                  !.matches = result.matches,
                  !.snippets = result.snippets,
                  !.evidence_count = result.evidence_count,
                  !.status = determine_status_advanced(result.confidence),
                  !.aum_values = result.aum_values]
          ELSE current_intel
    IN  IF result.matches # <<>> /\ ~InList(current_url, best.sources)
        THEN [best EXCEPT !.sources = Append(@, current_url)]
        ELSE best

\* Enqueue, were the links not tested against visited
Enqueue_NoVisitedTest(prioritized_links, seen, depth) ==
    LET kept == Slice(prioritized_links, 0, LinkCap)
    IN  [i \in 1..Len(kept) |-> <<kept[i], depth + 1>>]

\* for link in prioritized_links[:8]: if link not in visited: append
Enqueue(prioritized_links, seen, depth) ==
    LET kept == SelectSeq(Slice(prioritized_links, 0, LinkCap), LAMBDA link : link \notin seen)
    IN  [i \in 1..Len(kept) |-> <<kept[i], depth + 1>>]

\* Skip, were the entry read without being popped
Skip_KeepsEntry ==
    /\ pc = "loop"
    /\ LoopCondition
    /\ SkipCondition(Head(to_visit)[1], Head(to_visit)[2])
    /\ to_visit' = to_visit
    /\ outcome' = "skipped"
    /\ UNCHANGED <<params, intelligence, visited, pages_crawled, pc, fetched, processed,
                   slept, response_ok, offsite>>

\* an iteration that pops an entry and continues
Skip ==
    /\ pc = "loop"
    /\ LoopCondition
    /\ SkipCondition(Head(to_visit)[1], Head(to_visit)[2])
    /\ to_visit' = Tail(to_visit)
    /\ outcome' = "skipped"
    /\ UNCHANGED <<params, intelligence, visited, pages_crawled, pc, fetched, processed,
                   slept, response_ok, offsite>>

\* FetchFailed, were the URL marked visited before the test of html
FetchFailed_MarksVisited(html) ==
    LET current_url == Head(to_visit)[1]
        depth == Head(to_visit)[2]
    IN  /\ pc = "loop"
        /\ LoopCondition
        /\ ~SkipCondition(current_url, depth)
        /\ ~Truthy(html)
        /\ to_visit' = Tail(to_visit)
        /\ visited' = visited \cup {current_url}
        /\ fetched' = [fetched EXCEPT ![current_url] = @ + 1]
        /\ outcome' = "failed"
        /\ slept' = FALSE
        /\ response_ok' = (html # None)
        /\ offsite' = FALSE
        /\ UNCHANGED <<params, intelligence, pages_crawled, pc, processed>>

\* an iteration whose fetch_page_robust returns a falsy html
FetchFailed(html) ==
    LET current_url == Head(to_visit)[1]
        depth == Head(to_visit)[2]
    IN  /\ pc = "loop"
        /\ LoopCondition
        /\ ~SkipCondition(current_url, depth)
        /\ ~Truthy(html)
        /\ to_visit' = Tail(to_visit)
        /\ fetched' = [fetched EXCEPT ![current_url] = @ + 1]
        /\ outcome' = "failed"
        /\ slept' = FALSE
        /\ response_ok' = (html # None)
        /\ offsite' = FALSE
        /\ UNCHANGED <<params, intelligence, visited, pages_crawled, pc, processed>>

\* CrawlPage, were the links of a page put at the front of to_visit
CrawlPage_DepthFirst(html) ==
    LET current_url == Head(to_visit)[1]
        depth == Head(to_visit)[2]
    IN  /\ pc = "loop"
        /\ LoopCondition
        /\ ~SkipCondition(current_url, depth)
        /\ Truthy(html)
        /\ visited' = visited \cup {current_url}
        /\ pages_crawled' = pages_crawled + 1
        /\ intelligence' =
             [t \in Topics |-> Merge(intelligence[t], Analyze(html, t), current_url)]
        /\ IF depth < max_depth
           THEN \E new_links \in ListsOf(extract_internal_links(html, current_url)) :
                  to_visit' = Enqueue(prioritize_links(new_links), visited', depth)
                                \o Tail(to_visit)
           ELSE to_visit' = Tail(to_visit)
        /\ fetched' = [fetched EXCEPT ![current_url] = @ + 1]
        /\ processed' = Append(processed, [url |-> current_url, text |-> html.text])
        /\ outcome' = "crawled"
        /\ slept' = TRUE
        /\ response_ok' = TRUE
        /\ offsite' = (depth < max_depth
                         /\ \E i \in 1..Len(html.anchors) :
                               html.anchors[i].netloc # current_url.netloc)
        /\ UNCHANGED <<params, pc>>

\* CrawlPage, were the links of a page at depth max_depth queued too
CrawlPage_NoDepthTest(html) ==
    LET current_url == Head(to_visit)[1]
        depth == Head(to_visit)[2]
    IN  /\ pc = "loop"
        /\ LoopCondition
        /\ ~SkipCondition(current_url, depth)
        /\ Truthy(html)
        /\ visited' = visited \cup {current_url}
        /\ pages_crawled' = pages_crawled + 1
        /\ intelligence' =
             [t \in Topics |-> Merge(intelligence[t], Analyze(html, t), current_url)]
        /\ IF depth <= max_depth
           THEN \E new_links \in ListsOf(extract_internal_links(html, current_url)) :
                  to_visit' = Tail(to_visit)
                                \o Enqueue(prioritize_links(new_links), visited', depth)
           ELSE to_visit' = Tail(to_visit)
        /\ fetched' = [fetched EXCEPT ![current_url] = @ + 1]
        /\ processed' = Append(processed, [url |-> current_url, text |-> html.text])
        /\ outcome' = "crawled"
        /\ slept' = TRUE
        /\ response_ok' = TRUE
        /\ offsite' = (depth < max_depth
                         /\ \E i \in 1..Len(html.anchors) :
                               html.anchors[i].netloc # current_url.netloc)
        /\ UNCHANGED <<params, pc>>

\* an iteration whose fetch_page_robust returns a page: it is analysed for
\* every topic and its links are queued
CrawlPage(html) ==
    LET current_url == Head(to_visit)[1]
        depth == Head(to_visit)[2]
    IN  /\ pc = "loop"
        /\ LoopCondition
        /\ ~SkipCondition(current_url, depth)
        /\ Truthy(html)
        /\ visited' = visited \cup {current_url}
        /\ pages_crawled' = pages_crawled + 1
        /\ intelligence' =
             [t \in Topics |-> Merge(intelligence[t], Analyze(html, t), current_url)]
        /\ IF depth < max_depth
           THEN \E new_links \in ListsOf(extract_internal_links(html, current_url)) :
                  to_visit' = Tail(to_visit)
                                \o Enqueue(prioritize_links(new_links), visited', depth)
           ELSE to_visit' = Tail(to_visit)
        /\ fetched' = [fetched EXCEPT ![current_url] = @ + 1]
        /\ processed' = Append(processed, [url |-> current_url, text |-> html.text])
        /\ outcome' = "crawled"
        /\ slept' = TRUE
        /\ response_ok' = TRUE
        /\ offsite' = (depth < max_depth
                         /\ \E i \in 1..Len(html.anchors) :
                               html.anchors[i].netloc # current_url.netloc)
        /\ UNCHANGED <<params, pc>>

\* the while condition is false: the report follows
Exit ==
    /\ pc = "loop"
    /\ ~LoopCondition
    /\ pc' = "done"
    /\ outcome' = "exit"
    /\ UNCHANGED <<params, intelligence, visited, to_visit, pages_crawled, fetched, processed,
                   slept, response_ok, offsite>>

Next ==
    \/ Skip
    \/ \E html \in FetchedHtml : FetchFailed(html)
    \/ \E html \in FetchedHtml : CrawlPage(html)
    \/ Exit

Spec == Init /\ [][Next]_vars

\* The loop is sequential and every iteration ends: fetch_page_robust makes
\* at most retries requests, each with a timeout
FairSpec == Spec /\ WF_vars(Next)

---------------------------------------------------------------------------
(* Properties of the crawl loop                                            *)

\* C1: in every state of a run pages_crawled <= max_pages, and visited
\* holds at most max_pages URLs
C1_PageBudget == pages_crawled <= max_pages /\ Cardinality(visited) <= max_pages

\* the budget is used up while entries are still queued
C1_Witness == pages_crawled = max_pages /\ to_visit # <<>> /\ pc = "done"

\* C2: fetch_page_robust is called at most once for a URL in one run,
\* whatever its outcome
C2_FetchedAtMostOnce == \A u \in AllUrls : fetched[u] <= 1

\* C3: the loop ends, and when it has ended to_visit is empty or
\* pages_crawled = max_pages
C3_Terminates ==
    /\ <>(pc = "done")
    /\ [](pc = "done" => (to_visit = <<>> \/ pages_crawled = max_pages))

\* the loop has ended on an empty frontier with budget left, after a page
C3_Witness ==
    pc = "done" /\ to_visit = <<>> /\ pages_crawled < max_pages /\ processed # <<>>

\* C4: an iteration whose fetch fails changes neither visited, nor
\* pages_crawled, nor any topic's accumulator, queues nothing, and leaves
\* the loop running on the rest of the frontier
C4_FailureIsSkipped ==
    [][outcome' = "failed" =>
         /\ visited' = visited
         /\ pages_crawled' = pages_crawled
         /\ intelligence' = intelligence
         /\ to_visit' = Tail(to_visit)
         /\ pc' = "loop"]_vars

\* a fetch has failed after a page was analysed, and the loop has entries left
C4_Witness == outcome = "failed" /\ processed # <<>> /\ LoopCondition

\* C5: no topic's stored confidence ever decreases
C5_ConfidenceMonotonic ==
    [][\A t \in Topics : intelligence'[t].confidence >= intelligence[t].confidence]_vars

\* a page scoring lower for a topic was analysed after one scoring higher
C5_Witness ==
    \E t \in Topics : \E i, j \in 1..Len(processed) :
        /\ i < j
        /\ PageScores[processed[j].text][t].confidence
             < PageScores[processed[i].text][t].confidence

\* the confidence analyze_content_advanced gave the i-th analysed page
PageConfidence(i, t) == PageScores[processed[i].text][t].confidence

\* the greatest of them, 0 if no page was analysed
BestConfidence(t) ==
    IF processed = <<>> THEN 0
    ELSE LET all == {PageConfidence(i, t) : i \in 1..Len(processed)}
         IN  CHOOSE c \in all : \A d \in all : c >= d

\* the first analysed page that attains it
EarliestBest(t) ==
    LET at == {i \in 1..Len(processed) : PageConfidence(i, t) = BestConfidence(t)}
    IN  PageScores[processed[CHOOSE i \in at : \A j \in at : i <= j].text][t]

StoresResult(intel, result) ==
    /\ intel.matches = result.matches
    /\ intel.snippets = result.snippets
    /\ intel.evidence_count = result.evidence_count
    /\ intel.aum_values = result.aum_values

\* C6 as stated: the stored confidence is the greatest per-page confidence so
\* far, and the stored matches, snippets, evidence count and AUM facts are
\* those of the earliest page that attains it
C6_StoresEarliestBest ==
    \A t \in Topics :
        /\ intelligence[t].confidence = BestConfidence(t)
        /\ processed # <<>> => StoresResult(intelligence[t], EarliestBest(t))

\* C6 as amended: as above while the greatest confidence is above 0; while it
\* is 0 the stored matches, snippets, evidence count and AUM facts are the
\* initial empty ones
C6_StoresEarliestPositiveBest ==
    \A t \in Topics :
        /\ intelligence[t].confidence = BestConfidence(t)
        /\ BestConfidence(t) > 0 => StoresResult(intelligence[t], EarliestBest(t))
        /\ BestConfidence(t) = 0 => StoresResult(intelligence[t], InitialIntel)

\* two analysed pages tie on the greatest confidence of a topic with
\* different matches, and a page that scores 0 carries AUM facts
C6_Witness ==
    /\ \E t \in Topics : \E i, j \in 1..Len(processed) :
          /\ i < j
          /\ PageConfidence(i, t) = BestConfidence(t)
          /\ PageConfidence(j, t) = BestConfidence(t)
          /\ BestConfidence(t) > 0
          /\ PageScores[processed[i].text][t].matches
               # PageScores[processed[j].text][t].matches
    /\ \E t \in Topics : \E i \in 1..Len(processed) :
          /\ BestConfidence(t) = 0
          /\ PageScores[processed[i].text][t].aum_values # <<>>

\* whether a keyword of the t-th topic occurs in the text of a page,
\* whatever the case of its letters
KeywordOccurs ==
    [x \in PageTexts |-> [t \in Topics |->
        \E k \in 1..Len(INTELLIGENCE_CATEGORIES[t].keywords) :
            \E i \in 0..Len(clean_text(x)) :
                StartsAt(lower(clean_text(x)), lower(INTELLIGENCE_CATEGORIES[t].keywords[k]), i)]]

RECURSIVE MatchingPages(_, _)
\* the URLs of the analysed pages on which a keyword of the topic occurs
MatchingPages(pages, t) ==
    IF pages = <<>> THEN <<>>
    ELSE (IF KeywordOccurs[Head(pages).text][t] THEN <<Head(pages).url>> ELSE <<>>)
           \o MatchingPages(Tail(pages), t)

\* C7: a topic's sources are exactly the analysed pages on which a keyword
\* of the topic occurs, in the order they were analysed and each once,
\* whether or not the page is the topic's best
C7_SourcesAreMatchingPages ==
    \A t \in Topics :
        /\ intelligence[t].sources = MatchingPages(processed, t)
        /\ \A i, j \in 1..Len(intelligence[t].sources) :
              intelligence[t].sources[i] = intelligence[t].sources[j] => i = j

\* a page that matched is followed by a better one: the better page's
\* matches are stored and the topic has both pages as sources
C7_Witness ==
    /\ \E t \in Topics :
          /\ Len(processed) = 2
          /\ 0 < PageConfidence(1, t)
          /\ PageConfidence(1, t) < PageConfidence(2, t)
          /\ intelligence[t].matches = PageScores[processed[2].text][t].matches
          /\ intelligence[t].sources = <<processed[1].url, processed[2].url>>

\* C8: every confidence analyze_content_advanced returns, and so every stored
\* one, is between 0 and 100
C8_ConfidenceBounds ==
    /\ \A x \in PageTexts : \A t \in Topics :
          PageScores[x][t].confidence \in 0..1000
    /\ \A t \in Topics : intelligence[t].confidence \in 0..1000

\* a stored confidence of 100 for a page whose weighted confidence is above
C8_Witness ==
    \E t \in Topics : \E i \in 1..Len(processed) :
        /\ intelligence[t].confidence = 1000
        /\ LET r == PageScores[processed[i].text][t]
               config == INTELLIGENCE_CATEGORIES[t]
           IN  (100 * Len(r.matches) + Min(20, 2 * r.evidence_count) * Len(config.keywords))
                  * config.weight > 1000 * Len(config.keywords)

\* C10: every stored status is the class of the stored confidence: found
\* from 75, partial from 35 and below 75, not found below 35
C10_StatusOfConfidence ==
    \A t \in Topics :
        LET c == intelligence[t].confidence
        IN  \/ c >= 750 /\ intelligence[t].status = "found"
            \/ c >= 350 /\ c < 750 /\ intelligence[t].status = "partial"
            \/ c < 350 /\ intelligence[t].status = "not found"

\* a topic went from partial to found while another stays not found with a
\* confidence above 0
C10_Witness ==
    /\ Len(processed) >= 2
    /\ \E t \in Topics :
          /\ PageConfidence(1, t) \in 350..749
          /\ intelligence[t].status = "found"
    /\ \E t \in Topics :
          /\ intelligence[t].confidence > 0
          /\ intelligence[t].status = "not found"

---------------------------------------------------------------------------
(* analyze_content_advanced on its own: every short text against a few     *)
(* topic definitions                                                       *)

MaxTextLen == 4

ScoreAlphabet == {"a", "A", "b", " "}

\* every short text, and texts with more than ten occurrences of a keyword
ScoreTexts ==
    UNION {[1..n -> ScoreAlphabet] : n \in 0..MaxTextLen}
      \cup {Repeat("a", 11), Repeat("A", 13) \o <<"b">>, Repeat("b", 9) \o <<"a">>}

\* topic definitions in the shape of the catalog's: one to three keywords,
\* some of which overlap themselves or each other, and catalog weights
ScoreTopics ==
    { [question |-> <<"T", "1">>, keywords |-> <<<<"a", "a">>>>, weight |-> 7],
      [question |-> <<"T", "2">>, keywords |-> <<<<"A", "b">>, <<"b", "a">>>>, weight |-> 9],
      [question |-> <<"T", "3">>,
       keywords |-> <<<<"a">>, <<"a", " ", "b">>, <<"B", "B">>>>, weight |-> 12],
      [question |-> <<"T", "4">>, keywords |-> <<<<"a", "b", "a">>, <<"b">>>>, weight |-> 15] }

ScoreInit ==
    /\ target_url = Root
    /\ max_pages = 1
    /\ max_depth = 1
    /\ intelligence = [t \in Topics |-> InitialIntel]
    /\ visited = {}
    /\ to_visit = <<<<target_url, 0>>>>
    /\ pages_crawled = 0
    /\ pc = "loop"
    /\ outcome = "start"
    /\ fetched = [u \in AllUrls |-> 0]
    /\ processed = <<>>
    /\ slept = FALSE
    /\ response_ok = FALSE
    /\ offsite = FALSE
    /\ \E x \in ScoreTexts, config \in ScoreTopics :
          call = [fn |-> "analyze_content_advanced", html |-> Doc(x, <<>>),
                  config |-> config, returned |-> FALSE,
                  result |-> analyze_content_advanced(None, config.question, config)]

\* result = analyze_content_advanced(html, question, config)
ScoreCall ==
    /\ call.fn = "analyze_content_advanced"
    /\ ~call.returned
    /\ call' = [call EXCEPT
                  !.returned = TRUE,
                  !.result = analyze_content_advanced(call.html, call.config.question,
                                                      call.config)]
    /\ UNCHANGED run_vars

ScoreNext == ScoreCall

ScoreSpec == ScoreInit /\ [][ScoreNext]_vars

\* the text the keywords are looked up in
ScoredText == lower(clean_text(call.html.text))

\* the positions at which the keyword occurs in the text, whatever the case
Occurrences(keyword) ==
    {i \in 0..Len(ScoredText) : StartsAt(ScoredText, lower(keyword), i)}

\* the greatest number of occurrences no two of which overlap
DisjointOccurrences(keyword) ==
    LET packs == {P \in SUBSET Occurrences(keyword) :
                    \A i, j \in P : i < j => i + Len(keyword) <= j}
    IN  CHOOSE n \in 0..Len(ScoredText) :
          /\ \E P \in packs : Cardinality(P) = n
          /\ \A P \in packs : Cardinality(P) <= n

RECURSIVE SumSeq(_)
\* the sum of a sequence of numbers
SumSeq(ns) == IF ns = <<>> THEN 0 ELSE Head(ns) + SumSeq(Tail(ns))

\* min(100, round((100*k/n + min(20, 2*m)) * w, 1)) in tenths, for k of n
\* keywords occurring, m occurrences and weight w in tenths
StatedConfidence(k, n, m, w) ==
    LET scaled == (100 * k + Min(20, 2 * m) * n) * w
        nearest == CHOOSE r \in 0..(scaled \div n + 1) :
                     /\ 2 * (r * n - scaled) <= n
                     /\ 2 * (scaled - r * n) <= n
                     /\ (2 * (scaled - r * n) = n \/ 2 * (r * n - scaled) = n) => r % 2 = 0
    IN  Min(1000, nearest)

\* C9 as stated: the confidence is that formula with m the number of
\* occurrences of the keywords as substrings of the text
C9_ConfidenceOfOccurrences ==
    call.returned =>
        LET keywords == call.config.keywords
            k == Cardinality({i \in 1..Len(keywords) : Occurrences(keywords[i]) # {}})
            m == SumSeq([i \in 1..Len(keywords) |-> Cardinality(Occurrences(keywords[i]))])
        IN  call.result.confidence
              = StatedConfidence(k, Len(keywords), m, call.config.weight)

\* C9 as amended: the confidence is that formula with m the number of
\* non-overlapping occurrences of the keywords, counted from the left
C9_ConfidenceOfDisjointOccurrences ==
    call.returned =>
        LET keywords == call.config.keywords
            k == Cardinality({i \in 1..Len(keywords) : Occurrences(keywords[i]) # {}})
            m == SumSeq([i \in 1..Len(keywords) |-> DisjointOccurrences(keywords[i])])
        IN  call.result.confidence
              = StatedConfidence(k, Len(keywords), m, call.config.weight)

\* a text in which a keyword in another case occurs at overlapping
\* positions beside a second keyword, scored below 100
C9_Witness ==
    /\ call.returned
    /\ call.result.confidence \in 1..999
    /\ Len(call.result.matches) = 2
    /\ \E i \in 1..Len(call.config.keywords) :
          /\ Cardinality(Occurrences(call.config.keywords[i]))
                > DisjointOccurrences(call.config.keywords[i])
          /\ call.config.keywords[i] # lower(call.config.keywords[i])

---------------------------------------------------------------------------
(* Order and depth of the frontier                                         *)

\* the iteration popped an entry of to_visit
Dequeues == to_visit # <<>> /\ to_visit' # to_visit

\* the iteration appended at least one entry to to_visit
Enqueues == Dequeues /\ to_visit' # Tail(to_visit)

\* C11: the crawl is breadth-first: whenever an entry is dequeued, its depth
\* is at most the depth of every entry that is in to_visit after the
\* iteration, the next entry to be dequeued included; so the depths of
\* successively dequeued entries never decrease and nothing at depth d+1 is
\* fetched while an entry of depth d is queued
C11_BreadthFirst ==
    [][Dequeues =>
         \A i \in 1..Len(to_visit') : Head(to_visit)[2] <= to_visit'[i][2]]_vars

\* a crawled page has left entries of two depths in to_visit
C11_Witness ==
    /\ outcome = "crawled"
    /\ \E i, j \in 1..Len(to_visit) : to_visit[i][2] = 1 /\ to_visit[j][2] = 2

\* C12: every entry of to_visit has a depth between 0 and max_depth, no
\* entry of a depth above max_depth is fetched, and entries are appended
\* only by an iteration that crawled a page whose depth is below max_depth
C12_DepthBound ==
    /\ [](\A i \in 1..Len(to_visit) : to_visit[i][2] \in 0..max_depth)
    /\ [][fetched' # fetched => Head(to_visit)[2] <= max_depth]_vars
    /\ [][Enqueues => outcome' = "crawled" /\ Head(to_visit)[2] < max_depth]_vars

\* a page at depth max_depth was crawled, the budget is not used up, and
\* nothing is queued
C12_Witness ==
    /\ outcome = "crawled"
    /\ max_depth = 1
    /\ pages_crawled = 2
    /\ pages_crawled < max_pages
    /\ to_visit = <<>>

---------------------------------------------------------------------------
(* The politeness delay                                                    *)

\* C13: between the end of a fetch and the start of the next fetch,
\* time.sleep(crawl_delay) has run, whether the earlier fetch succeeded or
\* failed: no fetch after the first starts with slept false
C13_DelayBetweenFetches ==
    [][(fetched' # fetched /\ \E u \in AllUrls : fetched[u] > 0) => slept]_vars

---------------------------------------------------------------------------
(* fetch_page_robust on its own                                            *)

\* bound of the model: the largest value of retries
MaxRetries == 3

\* the two files that define fetch_page_robust
Versions == {"wealth-crawler", "msci-intelligence-v2"}

\* what one request may meet
FetchResponses ==
    {Ok(Doc(<<"o", "k">>, <<>>)), Ok(EmptyBody), HttpError(404), HttpError(403),
     HttpError(500), TimeoutError, OtherError}

FetchInit ==
    /\ target_url = Root
    /\ max_pages = 1
    /\ max_depth = 1
    /\ intelligence = [t \in Topics |-> InitialIntel]
    /\ visited = {}
    /\ to_visit = <<<<target_url, 0>>>>
    /\ pages_crawled = 0
    /\ pc = "loop"
    /\ outcome = "start"
    /\ fetched = [u \in AllUrls |-> 0]
    /\ processed = <<>>
    /\ slept = FALSE
    /\ response_ok = FALSE
    /\ offsite = FALSE
    /\ \E version \in Versions, retries \in 1..MaxRetries :
         \E responses \in [1..retries -> FetchResponses] :
            call = [fn |-> "fetch_page_robust", version |-> version, url |-> Root,
                    retries |-> retries, responses |-> responses, returned |-> FALSE,
                    result |-> [html |-> None] @@ NoneDone]

\* html = fetch_page_robust(url, retries=retries) of wealth-crawler.py
FetchCall ==
    /\ call.fn = "fetch_page_robust"
    /\ call.version = "wealth-crawler"
    /\ ~call.returned
    /\ call' = [call EXCEPT
                  !.returned = TRUE,
                  !.result = fetch_page_robust(call.url, call.retries, call.responses)]
    /\ UNCHANGED run_vars

\* html = fetch_page_robust(url, retries=retries) of msci-intelligence-v2.py
FetchCall_v2 ==
    /\ call.fn = "fetch_page_robust"
    /\ call.version = "msci-intelligence-v2"
    /\ ~call.returned
    /\ call' = [call EXCEPT
                  !.returned = TRUE,
                  !.result = fetch_page_robust_v2(call.url, call.retries, call.responses)]
    /\ UNCHANGED run_vars

FetchNext ==
    \/ FetchCall
    \/ FetchCall_v2

FetchSpec == FetchInit /\ [][FetchNext]_vars

\* a call of fetch_page_robust has returned
Fetched == call.fn = "fetch_page_robust" /\ call.returned

\* the call returned None after one request and no sleep
FailedAtOnce ==
    /\ call.result.html = None
    /\ call.result.log = <<[op |-> "get", seconds |-> 0]>>

\* C14: when the first response is a 404, fetch_page_robust (of either
\* file) returns None after exactly one request and without any sleep,
\* whatever retries >= 1 is
C14_NotFoundIsFinal ==
    (Fetched /\ call.responses[1] = HttpError(404)) => FailedAtOnce

\* a call with retries = 3 whose first response was a 404 and whose second
\* would have been a page
C14_Witness ==
    /\ Fetched
    /\ call.retries = 3
    /\ call.responses[1] = HttpError(404)
    /\ call.responses[2].kind = "ok"

\* C15: in both files, when the first response is a 403, fetch_page_robust
\* returns None after exactly that one request
C15_ForbiddenIsFinal ==
    (Fetched /\ call.responses[1] = HttpError(403)) => FailedAtOnce

\* C16: when every request times out, fetch_page_robust makes retries
\* requests, sleeps 2^attempt seconds after the attempt-th (0-based) one
\* except the last, and returns None
C16_TimeoutBackoff ==
    (Fetched /\ \A i \in 1..call.retries : call.responses[i] = TimeoutError)
      => /\ call.result.html = None
         /\ call.result.requests = call.retries
         /\ call.result.log =
              [i \in 1..(2 * call.retries - 1) |->
                 IF i % 2 = 1 THEN [op |-> "get", seconds |-> 0]
                 ELSE [op |-> "sleep", seconds |-> 2 ^ ((i \div 2) - 1)]]

\* a call with retries = 3 whose three requests timed out
C16_Witness ==
    /\ Fetched
    /\ call.retries = 3
    /\ \A i \in 1..3 : call.responses[i] = TimeoutError

\* the position in the log of the i-th request
RECURSIVE GetAt(_, _, _)
GetAt(log, i, from) ==
    IF log[from].op = "get"
    THEN IF i = 1 THEN from ELSE GetAt(log, i - 1, from + 1)
    ELSE GetAt(log, i, from + 1)

\* a response that is a failure other than a 404, a 403 or a timeout
OtherFailure(response) ==
    \/ response.kind = "Exception"
    \/ response.kind = "HTTPError" /\ response.status \notin {403, 404}

\* C17: after every failed request that is neither a 404, a 403 nor a
\* timeout, fetch_page_robust sleeps 1 second before the next request, and
\* returns None when such a failure is the last of its retries requests
C17_FlatDelay ==
    Fetched =>
      \A i \in 1..call.result.requests :
         OtherFailure(call.responses[i]) =>
            IF i < call.result.requests
            THEN call.result.log[GetAt(call.result.log, i, 1) + 1]
                   = [op |-> "sleep", seconds |-> 1]
            ELSE call.result.html = None /\ i = call.retries

---------------------------------------------------------------------------
(* What counts as a page, and what is queued                               *)

\* C18: every fetch that ends with a 2xx response adds the URL to visited
\* and raises pages_crawled by exactly one, whatever the body is
C18_Every2xxIsAPage ==
    [][(fetched' # fetched /\ response_ok') =>
          /\ Head(to_visit)[1] \in visited'
          /\ pages_crawled' = pages_crawled + 1]_vars

\* C19: a URL appended to to_visit is not in visited at that moment, and
\* no URL is processed as a page more than once in a run
C19_VisitedOnce ==
    /\ [](\A i, j \in 1..Len(processed) : processed[i].url = processed[j].url => i = j)
    /\ [][Enqueues =>
            \A i \in Len(to_visit)..Len(to_visit') : to_visit'[i][1] \notin visited']_vars

\* a second or later page was crawled and left entries in to_visit
C19_Witness ==
    /\ outcome = "crawled"
    /\ Len(processed) >= 2
    /\ \E i \in 1..Len(to_visit) : to_visit[i][2] = 2

\* C20: to_visit never holds a URL more than once
C20_QueuedOnce ==
    \A i, j \in 1..Len(to_visit) : to_visit[i][1] = to_visit[j][1] => i = j

---------------------------------------------------------------------------
(* Canonical URLs                                                          *)

\* C21: no two different URLs fetched in one run have the same canonical
\* form (the URL without its fragment and trailing slashes): a start URL
\* typed with a trailing slash and the link to it without one are one page
C21_FetchedOncePerCanonicalUrl ==
    \A u, v \in AllUrls :
       (fetched[u] > 0 /\ fetched[v] > 0 /\ NormalizedLink(u) = NormalizedLink(v)) => u = v

---------------------------------------------------------------------------
(* URLs as strings: urljoin, urlparse and the normalization of             *)
(* extract_internal_links                                                  *)

Letters ==
    {"a","b","c","d","e","f","g","h","i","j","k","l","m",
     "n","o","p","q","r","s","t","u","v","w","x","y","z"}

\* urllib.parse.scheme_chars, for lower-case text
IsSchemeChar(c) == c \in Letters \/ IsDigit(c) \/ c \in {"+", "-", "."}

\* urllib.parse.uses_params (and uses_relative, uses_netloc) hold http and
\* https; mailto is in none of them
UsesParams(scheme) == scheme \in {<<>>, <<"h","t","t","p">>, <<"h","t","t","p","s">>, <<"t","e","l">>}

UsesNetloc(scheme) == scheme \in {<<>>, <<"h","t","t","p">>, <<"h","t","t","p","s">>}

\* _splitnetloc: the netloc ends before the first of / ? # after start
NetlocEnd(url, start) ==
    LET ends == {i \in start..(Len(url) - 1) : url[i + 1] \in {"/", "?", "#"}}
    IN  IF ends = {} THEN Len(url) ELSE CHOOSE i \in ends : \A j \in ends : i <= j

\* str.rstrip('/')
RECURSIVE rstrip_slash(_)
rstrip_slash(s) ==
    IF s # <<>> /\ s[Len(s)] = "/" THEN rstrip_slash(SubSeq(s, 1, Len(s) - 1)) ELSE s

\* s.split(sep, 1) when sep is in s: what precedes and what follows the
\* first sep
Before(s, sep) == Slice(s, 0, find(s, sep, 0))

After(s, sep) == Slice(s, find(s, sep, 0) + Len(sep), Len(s))

\* _splitparams(url), called when ';' is in url
splitparams(url) ==
    LET i == IF Contains(url, <<"/">>)
             THEN find(url, <<";">>, rfind(url, <<"/">>, Len(url)))
             ELSE find(url, <<";">>, 0)
    IN  IF i < 0 THEN [path |-> url, params |-> <<>>]
        ELSE [path |-> Slice(url, 0, i), params |-> Slice(url, i + 1, Len(url))]

\* urlparse(url): urlsplit, then the params of the last path segment
urlparse(url) ==
    LET i == find(url, <<":">>, 0)
        has_scheme == /\ i > 0
                      /\ url[1] \in Letters
                      /\ \A j \in 1..i : IsSchemeChar(url[j])
        scheme == IF has_scheme THEN Slice(url, 0, i) ELSE <<>>
        rest1 == IF has_scheme THEN Slice(url, i + 1, Len(url)) ELSE url
        has_netloc == Slice(rest1, 0, 2) = <<"/", "/">>
        netloc == IF has_netloc THEN Slice(rest1, 2, NetlocEnd(rest1, 2)) ELSE <<>>
        rest2 == IF has_netloc THEN Slice(rest1, NetlocEnd(rest1, 2), Len(rest1)) ELSE rest1
        fragment == IF Contains(rest2, <<"#">>) THEN After(rest2, <<"#">>) ELSE <<>>
        rest3 == IF Contains(rest2, <<"#">>) THEN Before(rest2, <<"#">>) ELSE rest2
        query == IF Contains(rest3, <<"?">>) THEN After(rest3, <<"?">>) ELSE <<>>
        rest4 == IF Contains(rest3, <<"?">>) THEN Before(rest3, <<"?">>) ELSE rest3
        split == IF UsesParams(scheme) /\ Contains(rest4, <<";">>)
                 THEN splitparams(rest4)
                 ELSE [path |-> rest4, params |-> <<>>]
    IN  [scheme |-> scheme, netloc |-> netloc, path |-> split.path,
         params |-> split.params, query |-> query, fragment |-> fragment]

\* urlunparse(parsed)
urlunparse(parsed) ==
    LET url1 == IF parsed.params # <<>> THEN parsed.path \o <<";">> \o parsed.params
                ELSE parsed.path
        url2 == IF parsed.netloc # <<>>
                     \/ (parsed.scheme # <<>> /\ UsesNetloc(parsed.scheme)
                           /\ Slice(url1, 0, 2) # <<"/", "/">>)
                THEN <<"/", "/">> \o parsed.netloc
                       \o (IF url1 # <<>> /\ url1[1] # "/" THEN <<"/">> ELSE <<>>) \o url1
                ELSE url1
        url3 == IF parsed.scheme # <<>> THEN parsed.scheme \o <<":">> \o url2 ELSE url2
        url4 == IF parsed.query # <<>> THEN url3 \o <<"?">> \o parsed.query ELSE url3
    IN  IF parsed.fragment # <<>> THEN url4 \o <<"#">> \o parsed.fragment ELSE url4

\* the second half of urljoin, from the two parsed URLs
JoinParsed(b, u, url) ==
    IF u.scheme # <<>> /\ (u.scheme # b.scheme \/ ~UsesNetloc(u.scheme)) THEN url
    ELSE urlunparse([u EXCEPT !.scheme = IF @ = <<>> THEN b.scheme ELSE @,
                              !.netloc = IF @ = <<>> THEN b.netloc ELSE @])

\* urljoin(base, url) for a url that is not relative: another scheme than
\* the base's, or a netloc of its own. (The hrefs of the model are of
\* these two kinds; a relative one is resolved against the base's path.)
urljoin(base, url) ==
    IF base = <<>> THEN url
    ELSE IF url = <<>> THEN base
    ELSE CHOOSE joined \in {JoinParsed(b, u, url) :
                              b \in {urlparse(base)}, u \in {urlparse(url)}} : TRUE

\* lines 451 to 455: the links that an anchor adds, from its parsed URL
LinksOfParsed(parsed, base_domain) ==
    LET normalized ==
            parsed.scheme \o <<":", "/", "/">> \o parsed.netloc \o rstrip_slash(parsed.path)
              \o (IF parsed.query # <<>> THEN <<"?">> \o parsed.query ELSE <<>>)
    IN  IF parsed.netloc = base_domain THEN {normalized} ELSE {}

\* lines 447 to 455 for one anchor: the set of links it adds
LinksOfAnchor(base_url, href) ==
    UNION {LinksOfParsed(parsed, urlparse(base_url).netloc) :
             parsed \in {urlparse(absolute_url) : absolute_url \in {urljoin(base_url, href)}}}

\* extract_internal_links of a page whose anchors have these hrefs
LinksOfAnchors(base_url, hrefs) ==
    UNION {LinksOfAnchor(base_url, hrefs[i]) : i \in 1..Len(hrefs)}

---------------------------------------------------------------------------
(* extract_internal_links on its own                                       *)

\* bound of the model: the length of what follows the host in an href
MaxHrefTail == 3

\* the crawl loop has not started: the state of the loop while a function
\* is run on its own
NoRun ==
    /\ target_url = Root
    /\ max_pages = 1
    /\ max_depth = 1
    /\ intelligence = [t \in Topics |-> InitialIntel]
    /\ visited = {}
    /\ to_visit = <<<<target_url, 0>>>>
    /\ pages_crawled = 0
    /\ pc = "loop"
    /\ outcome = "start"
    /\ fetched = [u \in AllUrls |-> 0]
    /\ processed = <<>>
    /\ slept = FALSE
    /\ response_ok = FALSE
    /\ offsite = FALSE

\* "http://x.com"
Site == <<"h","t","t","p",":","/","/","x",".","c","o","m">>

HrefAlphabet == {"/", "a", ";", "?", "#"}

\* hrefs on the host of the page and hosts that start like it, and hrefs to
\* documents, images, archives, other hosts and other schemes
HrefStrings ==
    {Site \o t : t \in UNION {[1..n -> HrefAlphabet] : n \in 0..MaxHrefTail}}
      \cup {<<"h","t","t","p",":","/","/","x",".","c","o","m","/","a","#","f","r","a","g">>,
            <<"h","t","t","p",":","/","/","x",".","c","o","m","/","a","/">>,
            <<"h","t","t","p",":","/","/","x",".","c","o","m","/","a",".","p","d","f">>,
            <<"h","t","t","p",":","/","/","x",".","c","o","m","/","a",".","p","n","g">>,
            <<"h","t","t","p",":","/","/","x",".","c","o","m","/","a",".","z","i","p">>,
            <<"h","t","t","p",":","/","/","y",".","c","o","m","/","a">>,
            <<"m","a","i","l","t","o",":","a","@","x",".","c","o","m">>,
            <<"t","e","l",":","+","1">>}

LinkInit ==
    /\ NoRun
    /\ \E href \in HrefStrings :
         call = [fn |-> "extract_internal_links", base_url |-> Site, hrefs |-> <<href>>,
                 returned |-> FALSE, links |-> {}, again |-> FALSE, links_again |-> {}]

\* links = extract_internal_links(html, base_url) for a page whose anchors
\* are call.hrefs
LinkCall ==
    /\ call.fn = "extract_internal_links"
    /\ ~call.returned
    /\ call' = [call EXCEPT !.returned = TRUE,
                            !.links = LinksOfAnchors(call.base_url, call.hrefs)]
    /\ UNCHANGED run_vars

\* extract_internal_links for a page whose anchors are the links returned
\* by the first call
LinkCallAgain ==
    /\ call.fn = "extract_internal_links"
    /\ call.returned
    /\ ~call.again
    /\ \E hrefs \in ListsOf(call.links) :
         call' = [call EXCEPT !.again = TRUE,
                              !.links_again = LinksOfAnchors(call.base_url, hrefs)]
    /\ UNCHANGED run_vars

LinkNext ==
    \/ LinkCall
    \/ LinkCallAgain

LinkSpec == LinkInit /\ [][LinkNext]_vars

\* C22: the normalization of extract_internal_links is idempotent (the
\* links of a page whose anchors are already normalized links are these
\* links), and http://x.com/a/ and http://x.com/a#frag normalize to the
\* same string
C22_NormalizationIdempotent ==
    /\ (call.fn = "extract_internal_links" /\ call.again) => call.links_again = call.links
    /\ (call.fn = "extract_internal_links" /\ call.returned
          /\ call.hrefs[1] \in {<<"h","t","t","p",":","/","/","x",".","c","o","m","/","a","/">>, <<"h","t","t","p",":","/","/","x",".","c","o","m","/","a","#","f","r","a","g">>})
         => call.links = {Site \o <<"/", "a">>}

\* the extensions of documents, images and archives
NonContentExtensions ==
    {<<".", "p", "d", "f">>, <<".", "p", "n", "g">>, <<".", "z", "i", "p">>}

EndsWith(s, suffix) == StartsAt(s, suffix, Len(s) - Len(suffix))

\* C24: extract_internal_links returns no link whose normalized form ends
\* in a non-content extension, and no link of a scheme other than http(s)
C24_NoNonContentLinks ==
    (call.fn = "extract_internal_links" /\ call.returned) =>
       \A link \in call.links :
          /\ \A ext \in NonContentExtensions : ~EndsWith(link, ext)
          /\ urlparse(link).scheme \in {<<"h","t","t","p">>, <<"h","t","t","p","s">>}

---------------------------------------------------------------------------
(* The same-host policy                                                    *)

\* C23: every URL placed in to_visit, and every page fetched or visited,
\* has the netloc (so the host) of the start URL: extract_internal_links
\* returns only links of the netloc of the page they are on
C23_SameHost ==
    /\ \A i \in 1..Len(to_visit) : to_visit[i][1].netloc = target_url.netloc
    /\ \A u \in visited : u.netloc = target_url.netloc
    /\ \A u \in AllUrls : fetched[u] > 0 => u.netloc = target_url.netloc

\* a page with an anchor to another host was crawled, its links were
\* extracted, and some of them were queued
C23_Witness ==
    /\ offsite
    /\ outcome = "crawled"
    /\ to_visit # <<>>

---------------------------------------------------------------------------
(* The whole run: any text as start URL, pages that the parser rejects,    *)
(* and the report after the loop                                           *)

\* a Target Firm URL that is no URL: the text "top", without scheme and host
NotAUrl ==
    [scheme |-> "", netloc |-> "", path |-> "top", slashes |-> 0, query |-> "",
     fragment |-> ""]

\* requests.get(url) raises MissingSchema for a url without a scheme
Parseable(url) == url.scheme # "" /\ url.netloc # ""

\* "if start_intel and target_url:" is the only test before the loop
RunInit ==
    /\ target_url \in TargetUrls \cup {NotAUrl}
    /\ max_pages \in 1..MaxPages
    /\ max_depth \in 1..MaxDepth
    /\ intelligence = [t \in Topics |-> InitialIntel]
    /\ visited = {}
    /\ to_visit = <<<<target_url, 0>>>>
    /\ pages_crawled = 0
    /\ pc = "loop"
    /\ outcome = "start"
    /\ fetched = [u \in AllUrls \cup {NotAUrl} |-> 0]
    /\ processed = <<>>
    /\ slept = FALSE
    /\ response_ok = FALSE
    /\ offsite = FALSE
    /\ call = NoCall

\* FetchFailed; every request for a text that is no URL raises, so its
\* fetch returns None
RunFetchFailed(html) ==
    /\ to_visit # <<>>
    /\ Parseable(Head(to_visit)[1]) \/ html = None
    /\ FetchFailed(html)

\* CrawlPage, for a URL that can be requested
RunCrawlPage(html) ==
    /\ to_visit # <<>>
    /\ Parseable(Head(to_visit)[1])
    /\ CrawlPage(html)

\* an iteration whose fetch returns a text that BeautifulSoup(html, "lxml")
\* rejects: the exception of the first analyze_content_advanced leaves the
\* loop and the script
ParseRaises ==
    /\ pc = "loop"
    /\ LoopCondition
    /\ ~SkipCondition(Head(to_visit)[1], Head(to_visit)[2])
    /\ Parseable(Head(to_visit)[1])
    /\ to_visit' = Tail(to_visit)
    /\ visited' = visited \cup {Head(to_visit)[1]}
    /\ pages_crawled' = pages_crawled + 1
    /\ fetched' = [fetched EXCEPT ![Head(to_visit)[1]] = @ + 1]
    /\ pc' = "raised"
    /\ outcome' = "rejected"
    /\ slept' = FALSE
    /\ response_ok' = TRUE
    /\ offsite' = FALSE
    /\ UNCHANGED <<params, intelligence, processed>>

\* the executive summary after the loop: found_count and partial_count are
\* assigned only in an iteration that crawled a page
Report ==
    /\ pc = "done"
    /\ pc' = IF pages_crawled = 0 THEN "raised" ELSE "reported"
    /\ outcome' = "report"
    /\ UNCHANGED <<params, intelligence, visited, to_visit, pages_crawled, fetched, processed,
                   slept, response_ok, offsite>>

RunNext ==
    \/ Skip
    \/ \E html \in FetchedHtml : RunFetchFailed(html)
    \/ \E html \in FetchedHtml : RunCrawlPage(html)
    \/ ParseRaises
    \/ Exit
    \/ Report

RunSpec == RunInit /\ [][RunNext]_vars

\* C25: when the HTML of a fetched page cannot be parsed, nothing is raised
\* to the scheduler: the page is visited and scored and the loop goes on
C25_ParseFailureIsContained ==
    outcome = "rejected" =>
       /\ pc = "loop"
       /\ Len(processed) = pages_crawled

\* C28: a start URL that cannot be parsed is fatal at once: no fetch is
\* attempted for it
C28_InvalidStartUrlIsFatalAtOnce ==
    ~Parseable(target_url) => \A u \in DOMAIN fetched : fetched[u] = 0

\* C29: the report after the loop is produced without raising, also when
\* no page was fetched successfully
C29_ReportIsProduced == outcome = "report" => pc = "reported"

---------------------------------------------------------------------------
(* The AUM scenario                                                        *)

\* "We manage $5 billion in assets"
AumScenarioText ==
    <<"W","e"," ","m","a","n","a","g","e"," ","$","5"," ","b","i","l","l","i","o","n"," ","i","n"," ","a","s","s","e","t","s">>

\* a finished run with page budget 1 whose only page has the scenario text
AumScenarioRun ==
    /\ pc = "done"
    /\ max_pages = 1
    /\ Len(processed) = 1
    /\ processed[1].text = AumScenarioText

\* the stored AUM facts include amount 5, unit billion, 5.0 billions
StoresFiveBillion ==
    \E i \in 1..Len(intelligence[1].aum_values) :
       /\ intelligence[1].aum_values[i].amount = [num |-> 5, scale |-> 0]
       /\ intelligence[1].aum_values[i].unit = <<"b","i","l","l","i","o","n">>
       /\ intelligence[1].aum_values[i].billions = 500

\* C26 as stated: after the scenario run the AUM topic (22 keywords, weight
\* 1.5) has a confidence above 75 and status found, and the 5 billion fact
C26_AumScenarioFound ==
    AumScenarioRun =>
       /\ Len(INTELLIGENCE_CATEGORIES[1].keywords) = 22
       /\ intelligence[1].confidence > 750
       /\ intelligence[1].status = "found"
       /\ StoresFiveBillion

\* C26 amended: after the scenario run the AUM topic has confidence 9.8
\* (one keyword of 22, one mention, weight 1.5) and status not found, and
\* the stored AUM facts include the 5 billion fact
C26_AumScenarioScoresLow ==
    AumScenarioRun =>
       /\ Len(INTELLIGENCE_CATEGORIES[1].keywords) = 22
       /\ intelligence[1].confidence = 98
       /\ intelligence[1].status = "not found"
       /\ StoresFiveBillion

\* the scenario run has ended
C26_Witness == AumScenarioRun /\ pages_crawled = 1

---------------------------------------------------------------------------
(* analyze_content_advanced and the merge step on their own                *)

\* a topic without keywords, besides the topics of ScoreTopics
NoKeywordTopic == [question |-> <<"T", "0">>, keywords |-> <<>>, weight |-> 10]

\* accumulators a topic may hold when a page is merged: the initial one and
\* one that earlier pages have filled
StoredIntel ==
    { InitialIntel,
      [status |-> "partial", confidence |-> 500,
       matches |-> <<[keyword |-> <<"a">>, count |-> 2]>>, snippets |-> <<<<"a", "a">>>>,
       sources |-> <<Root>>, evidence_count |-> 2, aum_values |-> <<>>] }

MergeInit ==
    /\ NoRun
    /\ \E html \in {None, EmptyBody} \cup {Doc(x, <<>>) : x \in ScoreTexts},
          config \in ScoreTopics \cup {NoKeywordTopic},
          current_intel \in StoredIntel :
         call = [fn |-> "merge", html |-> html, config |-> config, current_url |-> About,
                 current_intel |-> current_intel, returned |-> FALSE,
                 result |-> analyze_content_advanced(None, config.question, config),
                 merged |-> current_intel]

\* lines 711 to 724 for one topic: the page is analysed and its result is
\* merged into the accumulator of the topic
MergeCall ==
    /\ call.fn = "merge"
    /\ ~call.returned
    /\ call' = [call EXCEPT
                  !.returned = TRUE,
                  !.result = analyze_content_advanced(call.html, call.config.question,
                                                      call.config),
                  !.merged = Merge(call.current_intel,
                                   analyze_content_advanced(call.html, call.config.question,
                                                            call.config),
                                   call.current_url)]
    /\ UNCHANGED run_vars

MergeNext == MergeCall

MergeSpec == MergeInit /\ [][MergeNext]_vars

\* no keyword of the topic occurs in the text of the page (this includes a
\* topic without keywords), or the html is absent or empty
NothingToFind ==
    \/ call.html \in {None, EmptyBody}
    \/ \A i \in 1..Len(call.config.keywords) :
          \A at \in 0..Len(call.html.text) :
             ~StartsAt(lower(clean_text(call.html.text)), lower(call.config.keywords[i]), at)

\* C27: when no keyword of the topic occurs in the page text, when the
\* topic has no keywords, or when the html is absent or empty,
\* analyze_content_advanced returns confidence 0 with no matches and no
\* snippets, and the merge leaves the stored confidence, status and sources
\* as they were
C27_NothingFoundChangesNothing ==
    (call.fn = "merge" /\ call.returned /\ NothingToFind) =>
       /\ call.result.confidence = 0
       /\ call.result.matches = <<>>
       /\ call.result.snippets = <<>>
       /\ call.merged.confidence = call.current_intel.confidence
       /\ call.merged.status = call.current_intel.status
       /\ call.merged.sources = call.current_intel.sources

\* a page with text was analysed for the topic without keywords and merged
\* into an accumulator that earlier pages had filled
C27_Witness ==
    /\ call.fn = "merge"
    /\ call.returned
    /\ call.config.keywords = <<>>
    /\ call.html.kind = "doc"
    /\ call.html.text # <<>>
    /\ call.current_intel.confidence > 0

---------------------------------------------------------------------------
(* The enqueue step on its own                                             *)

RECURSIVE PickFrom(_, _)
\* the links of LinkPool from the i-th on whose index is in S, in order
PickFrom(S, i) ==
    IF i > Len(LinkPool) THEN <<>>
    ELSE (IF i \in S THEN <<LinkPool[i]>> ELSE <<>>) \o PickFrom(S, i + 1)

Reverse(s) == [i \in 1..Len(s) |-> s[Len(s) + 1 - i]]

\* what extract_internal_links may return for a page: any links of the
\* pool, listed in one of two orders
LinkLists ==
    {PickFrom(S, 1) : S \in SUBSET (1..Len(LinkPool))}
      \cup {Reverse(PickFrom(S, 1)) : S \in SUBSET (1..Len(LinkPool))}

EnqueueInit ==
    /\ NoRun
    /\ \E new_links \in LinkLists, seen \in {{}, {LinkPool[1], LinkPool[2]}},
          depth \in 0..(MaxDepth - 1) :
         call = [fn |-> "enqueue", new_links |-> new_links, visited |-> seen,
                 depth |-> depth, returned |-> FALSE, appended |-> <<>>]

\* lines 729 to 733: the entries appended to to_visit for a page of depth
\* call.depth whose links are call.new_links
EnqueueCall ==
    /\ call.fn = "enqueue"
    /\ ~call.returned
    /\ call' = [call EXCEPT
                  !.returned = TRUE,
                  !.appended = Enqueue(prioritize_links(call.new_links), call.visited,
                                       call.depth)]
    /\ UNCHANGED run_vars

EnqueueNext == EnqueueCall

EnqueueSpec == EnqueueInit /\ [][EnqueueNext]_vars

\* the links of the pool whose URL holds a priority keyword
PriorityUrls == {u \in {LinkPool[i] : i \in 1..Len(LinkPool)} : HasPriorityKeyword(u)}

\* the positions of the links of the page whose URL holds a priority keyword
PriorityLinksOf(links) == {i \in 1..Len(links) : links[i] \in PriorityUrls}

\* the position of links[i] in the prioritized order: the priority links
\* first, each group in the order of the page
PrioritizedPosition(links, i) ==
    IF i \in PriorityLinksOf(links)
    THEN Cardinality({j \in PriorityLinksOf(links) : j <= i})
    ELSE Cardinality(PriorityLinksOf(links))
           + Cardinality({j \in 1..i : j \notin PriorityLinksOf(links)})

\* C30: at most LinkCap entries are appended for a page, all at depth + 1;
\* each is a link of the page that is among the first LinkCap of the
\* prioritized order, so a link without priority keyword is appended only
\* if the page has fewer than LinkCap links with one
C30_CapAfterPrioritization ==
    (call.fn = "enqueue" /\ call.returned) =>
       /\ Len(call.appended) <= LinkCap
       /\ \A k \in 1..Len(call.appended) :
            /\ call.appended[k][2] = call.depth + 1
            /\ \E i \in 1..Len(call.new_links) :
                 /\ call.new_links[i] = call.appended[k][1]
                 /\ PrioritizedPosition(call.new_links, i) <= LinkCap
            /\ call.appended[k][1] \notin PriorityUrls
                 => Cardinality(PriorityLinksOf(call.new_links)) < LinkCap

\* a page with more than LinkCap links, at least LinkCap of them with a
\* priority keyword and one without, for which entries were appended
C30_Witness ==
    /\ call.fn = "enqueue"
    /\ call.returned
    /\ Len(call.new_links) > LinkCap
    /\ Cardinality(PriorityLinksOf(call.new_links)) >= LinkCap
    /\ Cardinality(PriorityLinksOf(call.new_links)) < Len(call.new_links)
    /\ call.new_links[1] \notin PriorityUrls
    /\ call.appended # <<>>
---------------------------------------------------------------------------
(* prioritize_links on its own                                             *)

MaxLinks == 3

\* the lists of at most MaxLinks links, repetitions included
PrioritizeInputs == UNION {[1..n -> MixedCaseLinks] : n \in 0..MaxLinks}

PrioritizeInit ==
    /\ NoRun
    /\ \E links \in PrioritizeInputs :
         call = [fn |-> "prioritize_links", links |-> links, returned |-> FALSE,
                 result |-> <<>>]

\* one call of prioritize_links
PrioritizeCall ==
    /\ call.fn = "prioritize_links"
    /\ ~call.returned
    /\ call' = [call EXCEPT !.returned = TRUE, !.result = prioritize_links(call.links)]
    /\ UNCHANGED run_vars

PrioritizeNext == PrioritizeCall

PrioritizeSpec == PrioritizeInit /\ [][PrioritizeNext]_vars

\* the link holds a priority keyword, whatever the case of its letters
HoldsPriorityKeyword(link) ==
    \E k \in 1..Len(priority_keywords) :
      \E i \in 1..Len(geturl(link)) :
        /\ i + Len(priority_keywords[k]) - 1 <= Len(geturl(link))
        /\ \A j \in 1..Len(priority_keywords[k]) :
             LowerChar(geturl(link)[i + j - 1]) = priority_keywords[k][j]

\* the links of MixedCaseLinks that hold a priority keyword
KeywordLinks == {link \in MixedCaseLinks : HoldsPriorityKeyword(link)}

\* how often the link occurs in the list
TimesIn(links, link) == Cardinality({i \in 1..Len(links) : links[i] = link})

\* C31: prioritize_links returns a permutation of its input in which every
\* link that holds a priority keyword, in any case, comes before every link
\* that holds none, and each of the two groups keeps the order of the input
C31_StablePartition ==
    (call.fn = "prioritize_links" /\ call.returned) =>
       /\ Len(call.result) = Len(call.links)
       /\ \A link \in MixedCaseLinks :
            TimesIn(call.result, link) = TimesIn(call.links, link)
       /\ \A i, j \in 1..Len(call.result) :
            (call.result[i] \notin KeywordLinks /\ call.result[j] \in KeywordLinks)
              => j < i
       /\ SelectSeq(call.result, LAMBDA link : link \in KeywordLinks)
            = SelectSeq(call.links, LAMBDA link : link \in KeywordLinks)
       /\ SelectSeq(call.result, LAMBDA link : link \notin KeywordLinks)
            = SelectSeq(call.links, LAMBDA link : link \notin KeywordLinks)

\* a list whose first link holds no priority keyword and whose later links
\* hold one in capitals and one in lower case was prioritized
C31_Witness ==
    /\ call.fn = "prioritize_links"
    /\ call.returned
    /\ Len(call.links) = 3
    /\ call.links[1] = Url("firm.example", "/news", 0, "")
    /\ call.links[2] = Url("firm.example", "/ESG-Report", 0, "")
    /\ call.links[3] = Url("firm.example", "/about", 0, "")
    /\ call.result[1] = call.links[2]
---------------------------------------------------------------------------
(* Entries that are dequeued and skipped                                   *)

\* the entry at the head of to_visit is one the loop skips: its URL is in
\* visited or its depth exceeds max_depth
HeadIsSkipped ==
    /\ pc = "loop"
    /\ to_visit # <<>>
    /\ pages_crawled < max_pages
    /\ (Head(to_visit)[1] \in visited \/ Head(to_visit)[2] > max_depth)

---------------------------------------------------------------------------
(* The evidence snippets of a page                                         *)

MaxSentences == 4

\* the sentences the pages are made of; the last has no terminator
Sentences ==
    { <<"a", ".">>, <<"b", ".">>, <<"c", ".">>, <<"d", ".">>,
      <<" ", "A", " ", "b", ".">>, <<"d">> }

RECURSIVE Concat(_)
Concat(ss) == IF ss = <<>> THEN <<>> ELSE Head(ss) \o Concat(Tail(ss))

\* the page texts: at most MaxSentences sentences in a row
SnippetTexts == {Concat(ss) : ss \in UNION {[1..n -> Sentences] : n \in 0..MaxSentences}}

\* topic definitions in the shape of the catalog's, with more than three
\* keywords
SnippetTopics ==
    { [question |-> <<"T", "5">>,
       keywords |-> <<<<"a">>, <<"b">>, <<"c">>, <<"d">>>>, weight |-> 10],
      [question |-> <<"T", "6">>,
       keywords |-> <<<<"D">>, <<"a", " ", "b">>, <<"c">>, <<"A">>, <<"b">>>>, weight |-> 12] }

SnippetInit ==
    /\ NoRun
    /\ \E x \in SnippetTexts, config \in SnippetTopics :
          call = [fn |-> "analyze_content_advanced", html |-> Doc(x, <<>>),
                  config |-> config, returned |-> FALSE,
                  result |-> analyze_content_advanced(None, config.question, config)]

SnippetNext == ScoreCall

SnippetSpec == SnippetInit /\ [][SnippetNext]_vars

\* the text the snippets are cut from
SnippetText == clean_text(call.html.text)

\* the snippet around the first occurrence of each keyword of the topic
\* in the text; empty for a keyword that does not occur
SnippetOf ==
    [k \in 1..Len(call.config.keywords) |->
       extract_context_snippet(SnippetText, call.config.keywords[k], 150)]

\* the keywords of the topic that occur in the text, by their index
MatchedKeywords(text) ==
    {k \in 1..Len(call.config.keywords) :
       Contains(lower(text), lower(call.config.keywords[k]))}

\* the matched keywords whose snippet is not the snippet of an earlier one
FirstWithSnippet(matched, sn) ==
    {k \in matched : \A j \in matched : j < k => sn[j] # sn[k]}

\* C33: the snippets returned for a topic and a page are at most 3 and
\* pairwise distinct; they are the snippets around the first occurrence of
\* the keywords that occur in the text, one per keyword, in the order of
\* the keyword list, a snippet equal to an earlier one being left out
C33_SnippetsOfMatchedKeywords ==
    (call.fn = "analyze_content_advanced" /\ call.returned) =>
       \A sn \in {SnippetOf} :
         \A first \in {FirstWithSnippet(MatchedKeywords(SnippetText), sn)} :
           /\ Len(call.result.snippets) <= 3
           /\ \A i, j \in 1..Len(call.result.snippets) :
                call.result.snippets[i] = call.result.snippets[j] => i = j
           /\ Len(call.result.snippets) = Min(3, Cardinality(first))
           /\ \A i \in 1..Len(call.result.snippets) :
                \E k \in first :
                  /\ Cardinality({j \in first : j <= k}) = i
                  /\ call.result.snippets[i] = sn[k]

\* a page on which more than three keywords of the topic occur, two of
\* them in the same sentence, with more than three distinct snippets
C33_Witness ==
    /\ call.fn = "analyze_content_advanced"
    /\ call.returned
    /\ Cardinality(FirstWithSnippet(MatchedKeywords(SnippetText), SnippetOf)) > 3
    /\ Cardinality(MatchedKeywords(SnippetText))
         > Cardinality(FirstWithSnippet(MatchedKeywords(SnippetText), SnippetOf))
    /\ Len(call.result.snippets) = 3
---------------------------------------------------------------------------
(* extract_context_snippet on its own                                      *)

\* context_length=150
ContextLength == 150

MaxContextLen == 4

ContextAlphabet == {"a", "A", ".", " "}

\* every short text, and sentences that go on for about ContextLength
\* characters after the keyword, with and without a terminator
ContextTexts ==
    UNION {[1..n -> ContextAlphabet] : n \in 0..MaxContextLen}
      \cup {<<"b", ".", " ", "a">> \o Repeat("x", n) \o tail :
              n \in {ContextLength - 2, ContextLength - 1, ContextLength, ContextLength + 50},
              tail \in {<<>>, <<".">>, <<".", " ", "y", ".">>}}

ContextKeywords == {<<"a">>, <<"a", " ">>, <<"A", "x">>}

ContextInit ==
    /\ NoRun
    /\ \E text \in ContextTexts, keyword \in ContextKeywords :
         call = [fn |-> "extract_context_snippet", text |-> text, keyword |-> keyword,
                 returned |-> FALSE, result |-> <<>>]

\* snippet = extract_context_snippet(text, keyword)
ContextCall ==
    /\ call.fn = "extract_context_snippet"
    /\ ~call.returned
    /\ call' = [call EXCEPT
                  !.returned = TRUE,
                  !.result = extract_context_snippet(call.text, call.keyword, ContextLength)]
    /\ UNCHANGED run_vars

ContextNext == ContextCall

ContextSpec == ContextInit /\ [][ContextNext]_vars

\* the start of the first occurrence of the keyword, whatever the case
FirstOccurrence == find(lower(call.text), lower(call.keyword), 0)

\* the positions of the '.' that lie before the first occurrence
DotsBefore == {i \in 0..(FirstOccurrence - 1) : call.text[i + 1] = "."}

\* the positions of the '.' that lie after the first occurrence
DotsAfter ==
    {i \in (FirstOccurrence + Len(call.keyword))..(Len(call.text) - 1) : call.text[i + 1] = "."}

\* just after the previous '.', or the start of the text
SnippetStart ==
    IF DotsBefore = {} THEN 0
    ELSE 1 + CHOOSE i \in DotsBefore : \A j \in DotsBefore : j <= i

\* the tighter of the next '.', included, and the horizon
SnippetEnd ==
    IF DotsAfter = {} THEN Min(Len(call.text), FirstOccurrence + ContextLength)
    ELSE Min(1 + (CHOOSE i \in DotsAfter : \A j \in DotsAfter : i <= j),
             FirstOccurrence + ContextLength)

\* C34: the snippet of a keyword that occurs starts just after the previous
\* '.' before its first occurrence, or at the start of the text, and ends
\* at the next '.' after the keyword, included, or ContextLength characters
\* after the start of the occurrence, whichever comes first; so it never
\* reaches further than ContextLength characters past that start
C34_SnippetWithinHorizon ==
    (call.fn = "extract_context_snippet" /\ call.returned /\ FirstOccurrence # -1) =>
       /\ call.result = strip(Slice(call.text, SnippetStart, SnippetEnd))
       /\ Len(call.result) <= FirstOccurrence - SnippetStart + ContextLength
---------------------------------------------------------------------------
(* clean_text on its own                                                   *)

MaxCleanLen == 5

\* a letter, two whitespace characters, and a character that is neither
\* printable nor whitespace
CleanAlphabet == {"a", " ", "\n", "ZWSP"}

CleanTexts == UNION {[1..n -> CleanAlphabet] : n \in 0..MaxCleanLen}

CleanInit ==
    /\ NoRun
    /\ \E text \in CleanTexts :
         call = [fn |-> "clean_text", text |-> text, returned |-> FALSE, result |-> <<>>,
                 again |-> FALSE, result_again |-> <<>>]

\* text = clean_text(text)
CleanCall ==
    /\ call.fn = "clean_text"
    /\ ~call.returned
    /\ call' = [call EXCEPT !.returned = TRUE, !.result = clean_text(call.text)]
    /\ UNCHANGED run_vars

\* clean_text of the text that clean_text returned
CleanCallAgain ==
    /\ call.fn = "clean_text"
    /\ call.returned
    /\ ~call.again
    /\ call' = [call EXCEPT !.again = TRUE, !.result_again = clean_text(call.result)]
    /\ UNCHANGED run_vars

CleanNext ==
    \/ CleanCall
    \/ CleanCallAgain

CleanSpec == CleanInit /\ [][CleanNext]_vars

\* C35: clean_text is idempotent, and the text it returns holds no two
\* whitespace characters in a row, no character that is not printable,
\* and no whitespace at its start or at its end, whatever the input
C35_CleanTextIsClean ==
    /\ (call.fn = "clean_text" /\ call.again) => call.result_again = call.result
    /\ (call.fn = "clean_text" /\ call.returned) =>
         /\ \A i \in 1..(Len(call.result) - 1) :
              ~(IsSpace(call.result[i]) /\ IsSpace(call.result[i + 1]))
         /\ \A i \in 1..Len(call.result) : IsPrintable(call.result[i])
         /\ call.result # <<>> =>
              (~IsSpace(call.result[1]) /\ ~IsSpace(call.result[Len(call.result)]))
---------------------------------------------------------------------------
(* The page counter and the accumulators                                   *)

\* the iteration called fetch_page_robust and the call returned a page
FetchedAPage == fetched' # fetched /\ outcome' # "failed"

\* C36: pages_crawled is the number of URLs in visited in every state of a
\* run; an iteration adds one to it when its fetch returned a page, and
\* leaves it alone otherwise
C36_CounterIsVisitedCount ==
    /\ [](pages_crawled = Cardinality(visited))
    /\ [][/\ FetchedAPage => pages_crawled' = pages_crawled + 1
          /\ ~FetchedAPage => pages_crawled' = pages_crawled]_vars

\* two pages were counted, and then an iteration whose fetch failed
C36_Witness ==
    /\ pages_crawled = 2
    /\ Cardinality(visited) = 2
    /\ outcome = "failed"
\* the pages analysed so far whose result for the topic is the stored one
PagesStored(t) ==
    {i \in 1..Len(processed) :
       /\ PageScores[processed[i].text][t].confidence = intelligence[t].confidence
       /\ PageScores[processed[i].text][t].matches = intelligence[t].matches}

\* C37: in every state of a run and for every topic, every source is a
\* visited URL; and while the stored confidence is above 0, matches and
\* sources are not empty and the page whose matches are stored, the first
\* analysed page with the stored result, is among the sources
C37_SourcesAreVisitedAndHoldTheBest ==
    \A t \in Topics :
       /\ \A i \in 1..Len(intelligence[t].sources) : intelligence[t].sources[i] \in visited
       /\ intelligence[t].confidence > 0 =>
            /\ intelligence[t].matches # <<>>
            /\ intelligence[t].sources # <<>>
            /\ PagesStored(t) # {}
            /\ \E i \in PagesStored(t) :
                 /\ \A j \in PagesStored(t) : i <= j
                 /\ InList(processed[i].url, intelligence[t].sources)

\* a topic whose stored matches are those of the second page analysed, with
\* both pages among its sources, and a later page that matched nothing
C37_Witness ==
    \E t \in Topics :
       /\ Len(processed) = 3
       /\ intelligence[t].confidence > 0
       /\ PagesStored(t) = {2}
       /\ Len(intelligence[t].sources) = 2
       /\ PageScores[processed[3].text][t].matches = <<>>
---------------------------------------------------------------------------
(* fetch_page_robust, attempt by attempt                                   *)

\* the call is at the head of the loop "for attempt in range(retries)" with
\* the attempt-th iteration to come
AttemptInit ==
    /\ NoRun
    /\ \E retries \in 0..MaxRetries :
         call = [fn |-> "fetch_attempts", url |-> Root, retries |-> retries, attempt |-> 0,
                 done |-> NoneDone, met |-> <<>>, returned |-> FALSE, html |-> None]

\* an iteration of the loop is to run
InLoop == call.fn = "fetch_attempts" /\ ~call.returned /\ call.attempt < call.retries

\* the call goes on with the next attempt after what it has done
NextAttempt(response, done) ==
    call' = [call EXCEPT !.attempt = @ + 1, !.done = done, !.met = Append(@, response)]

\* the call returns html after what it has done
Return(response, done, html) ==
    call' = [call EXCEPT !.returned = TRUE, !.done = done, !.html = html,
                         !.met = Append(@, response)]

\* lines 410 to 412: the request is answered with a 2xx response
AttemptOk(response) ==
    /\ InLoop
    /\ response.kind = "ok"
    /\ Return(response, Get(call.done), response.html)
    /\ UNCHANGED run_vars

\* lines 413 to 422: raise_for_status raises HTTPError
AttemptHTTPError(response) ==
    /\ InLoop
    /\ response.kind = "HTTPError"
    /\ IF response.status = 403 \/ response.status = 404 \/ call.attempt = call.retries - 1
       THEN Return(response, Get(call.done), None)
       ELSE NextAttempt(response, Get(call.done))
    /\ UNCHANGED run_vars

\* AttemptTimeout, were the attempt run again without being counted
AttemptTimeout_NotCounted(response) ==
    /\ InLoop
    /\ response.kind = "Timeout"
    /\ call.done.requests <= MaxRetries
    /\ call' = [call EXCEPT !.done = Sleep(Get(call.done), 1), !.met = Append(@, response)]
    /\ UNCHANGED run_vars

\* lines 423 to 427: the request times out
AttemptTimeout(response) ==
    /\ InLoop
    /\ response.kind = "Timeout"
    /\ IF call.attempt = call.retries - 1
       THEN Return(response, Get(call.done), None)
       ELSE NextAttempt(response, Sleep(Get(call.done), Pow2(call.attempt)))
    /\ UNCHANGED run_vars

\* lines 428 to 432: the request raises any other exception
AttemptException(response) ==
    /\ InLoop
    /\ response.kind = "Exception"
    /\ IF call.attempt = call.retries - 1
       THEN Return(response, Get(call.done), None)
       ELSE NextAttempt(response, Sleep(Get(call.done), 1))
    /\ UNCHANGED run_vars

\* line 434: the loop has run out of attempts
ReturnNone ==
    /\ call.fn = "fetch_attempts"
    /\ ~call.returned
    /\ call.attempt >= call.retries
    /\ call' = [call EXCEPT !.returned = TRUE, !.html = None]
    /\ UNCHANGED run_vars

AttemptNext ==
    \/ \E response \in FetchResponses : AttemptOk(response)
    \/ \E response \in FetchResponses : AttemptHTTPError(response)
    \/ \E response \in FetchResponses : AttemptTimeout(response)
    \/ \E response \in FetchResponses : AttemptException(response)
    \/ ReturnNone

AttemptSpec == AttemptInit /\ [][AttemptNext]_vars

\* every requests.get returns or raises (timeout=10) and every time.sleep
\* ends, so the call always takes its next step
FairAttemptSpec == AttemptSpec /\ WF_vars(AttemptNext)

\* C38: a call of fetch_page_robust ends; it never makes more than retries
\* requests, whatever the failures of its attempts and their order; and it
\* returns the text of a response or None
C38_FetchEndsWithinRetries ==
    /\ <>(call.fn = "fetch_attempts" /\ call.returned)
    /\ [](call.fn = "fetch_attempts" =>
            /\ call.done.requests <= call.retries
            /\ call.done.requests = Len(call.met)
            /\ call.returned =>
                 \/ call.html = None
                 \/ \E response \in FetchResponses :
                      response.kind = "ok" /\ call.html = response.html)

\* a call that met an HTTP error, a timeout and another exception, in this
\* order, and returned None after retries requests
C38_Witness ==
    /\ call.fn = "fetch_attempts"
    /\ call.returned
    /\ call.retries = 3
    /\ call.done.requests = 3
    /\ call.met = <<HttpError(500), TimeoutError, OtherError>>
    /\ call.html = None
---------------------------------------------------------------------------
(* Two runs over the same site                                             *)

News == Url("firm.example", "/news", 0, "")

Contact == Url("firm.example", "/contact", 0, "")

\* the pages of a small site
OrderUrls == {Root, News, Contact}

\* "MSCI ETF" and "$5B"
OrderTexts == {<<"M","S","C","I"," ","E","T","F">>, <<"$","5","B">>}

\* what a URL of the site answers: a page with no link or with two links,
\* or a failure
OrderPages ==
    {None} \cup {Doc(x, a) : x \in OrderTexts,
                             a \in {<<>>, <<News, Contact>>, <<Contact, Root>>}}

\* the content of the site: the same for both runs
Sites == [OrderUrls -> OrderPages]

\* the state of a run before its loop
RunStart(url) ==
    [visited |-> {}, to_visit |-> <<<<url, 0>>>>, pages_crawled |-> 0,
     intelligence |-> [t \in Topics |-> InitialIntel], pc |-> "loop"]

OrderInit ==
    /\ target_url = Root
    /\ max_pages \in 1..MaxPages
    /\ max_depth \in 1..MaxDepth
    /\ intelligence = [t \in Topics |-> InitialIntel]
    /\ visited = {}
    /\ to_visit = <<<<target_url, 0>>>>
    /\ pages_crawled = 0
    /\ pc = "loop"
    /\ outcome = "start"
    /\ fetched = [u \in AllUrls \cup OrderUrls |-> 0]
    /\ processed = <<>>
    /\ slept = FALSE
    /\ response_ok = FALSE
    /\ offsite = FALSE
    /\ \E site \in Sites :
         call = [fn |-> "run", site |-> site, again |-> RunStart(target_url)]

\* the first run: the iterations of the loop, with the site's answer for
\* the URL at the head of to_visit
OrderFetchFailed == to_visit # <<>> /\ call.fn = "run" /\ FetchFailed(call.site[Head(to_visit)[1]])

OrderCrawlPage == to_visit # <<>> /\ call.fn = "run" /\ CrawlPage(call.site[Head(to_visit)[1]])

\* the second run, with the same target_url, max_pages and max_depth, once
\* the first has ended: an iteration that pops an entry and continues
AgainSkip ==
    /\ pc = "done"
    /\ call.fn = "run"
    /\ call.again.pc = "loop"
    /\ call.again.to_visit # <<>> /\ call.again.pages_crawled < max_pages
    /\ \/ Head(call.again.to_visit)[1] \in call.again.visited
       \/ Head(call.again.to_visit)[2] > max_depth
    /\ call' = [call EXCEPT !.again.to_visit = Tail(@)]
    /\ UNCHANGED run_vars

\* an iteration of the second run whose fetch fails
AgainFetchFailed ==
    /\ pc = "done"
    /\ call.fn = "run"
    /\ call.again.pc = "loop"
    /\ call.again.to_visit # <<>> /\ call.again.pages_crawled < max_pages
    /\ Head(call.again.to_visit)[1] \notin call.again.visited
    /\ Head(call.again.to_visit)[2] <= max_depth
    /\ ~Truthy(call.site[Head(call.again.to_visit)[1]])
    /\ call' = [call EXCEPT !.again.to_visit = Tail(@)]
    /\ UNCHANGED run_vars

\* an iteration of the second run that fetches a page, merges its results
\* and queues its links in the order list(links) has this time
AgainCrawlPage ==
    /\ pc = "done"
    /\ call.fn = "run"
    /\ call.again.pc = "loop"
    /\ call.again.to_visit # <<>> /\ call.again.pages_crawled < max_pages
    /\ Head(call.again.to_visit)[1] \notin call.again.visited
    /\ Head(call.again.to_visit)[2] <= max_depth
    /\ Truthy(call.site[Head(call.again.to_visit)[1]])
    /\ \E html \in {call.site[Head(call.again.to_visit)[1]]},
          current_url \in {Head(call.again.to_visit)[1]},
          depth \in {Head(call.again.to_visit)[2]} :
         \E new_links \in ListsOf(extract_internal_links(html, current_url)) :
           call' = [call EXCEPT
                      !.again.visited = @ \cup {current_url},
                      !.again.pages_crawled = @ + 1,
                      !.again.intelligence =
                          [t \in Topics |-> Merge(@[t], Analyze(html, t), current_url)],
                      !.again.to_visit =
                          IF depth < max_depth
                          THEN Tail(@) \o Enqueue(prioritize_links(new_links),
                                                  call.again.visited \cup {current_url}, depth)
                          ELSE Tail(@)]
    /\ UNCHANGED run_vars

\* the while condition of the second run is false
AgainExit ==
    /\ pc = "done"
    /\ call.fn = "run"
    /\ call.again.pc = "loop"
    /\ ~(call.again.to_visit # <<>> /\ call.again.pages_crawled < max_pages)
    /\ call' = [call EXCEPT !.again.pc = "done"]
    /\ UNCHANGED run_vars

OrderNext ==
    \/ Skip
    \/ OrderFetchFailed
    \/ OrderCrawlPage
    \/ Exit
    \/ AgainSkip
    \/ AgainFetchFailed
    \/ AgainCrawlPage
    \/ AgainExit

OrderSpec == OrderInit /\ [][OrderNext]_vars

\* both runs have ended
BothDone == call.fn = "run" /\ pc = "done" /\ call.again.pc = "done"

\* C39: two runs with the same start URL and parameters over the same site
\* end with the same set of visited pages and the same confidence for every
\* topic, whatever the order in which the links of each page were listed
C39_OutcomeIsOrderIndependent ==
    BothDone =>
       /\ call.again.visited = visited
       /\ \A t \in Topics : call.again.intelligence[t].confidence = intelligence[t].confidence

===========================================================================
